---------------------------- MODULE Spec2Model ----------------------------
(***************************************************************************)
(* Filename parsing, library scoring, collection routing and the match     *)
(* caches of the library matcher.                                          *)
(*                                                                         *)
(* A JavaScript string is a sequence of characters; a character is a       *)
(* one-element string atom ("M", "2", "-", ...).  Characters outside ASCII *)
(* (the Arabic letters of the regular expressions) are atoms named by      *)
(* their letter ("ar_sin").  Opaque identifiers that the code never looks  *)
(* into (library ids, reason texts, the 'type' enum) are plain atoms.      *)
(***************************************************************************)
EXTENDS Integers, Sequences, FiniteSets, TLC

\* ------------------------------------------------------------------------
\* Characters and strings
\* ------------------------------------------------------------------------

UpperLetters == <<"A","B","C","D","E","F","G","H","I","J","K","L","M",
                  "N","O","P","Q","R","S","T","U","V","W","X","Y","Z">>

LowerLetters == <<"a","b","c","d","e","f","g","h","i","j","k","l","m",
                  "n","o","p","q","r","s","t","u","v","w","x","y","z">>

Digits == {"0","1","2","3","4","5","6","7","8","9"}

Range(s) == { s[i] : i \in 1..Len(s) }

IsDigit(c) == c \in Digits

IsUpper(c) == c \in Range(UpperLetters)

IsLower(c) == c \in Range(LowerLetters)

IsLetter(c) == IsUpper(c) \/ IsLower(c)

\* \w of a JavaScript regular expression without the u flag
IsWordChar(c) == IsLetter(c) \/ IsDigit(c) \/ c = "_"

\* \s restricted to the blank, the only white space of the modelled names
IsSpace(c) == c = " "

UpChar(c) ==
  IF IsLower(c)
    THEN UpperLetters[CHOOSE i \in 1..26 : LowerLetters[i] = c]
    ELSE c

LowChar(c) ==
  IF IsUpper(c)
    THEN LowerLetters[CHOOSE i \in 1..26 : UpperLetters[i] = c]
    ELSE c

\* a sequence given by a rule, as an explicit tuple of its values
Listed(s) == s \o <<>>

toUpperCase(s) == Listed([i \in 1..Len(s) |-> UpChar(s[i])])

toLowerCase(s) == Listed([i \in 1..Len(s) |-> LowChar(s[i])])

\* the JavaScript value undefined, where a string is expected
Undef == <<"undefined">>

\* truthiness of a string-or-undefined value
Truthy(s) == s # Undef /\ s # <<>>

\* p occurs in s starting at position i
OccursAt(s, p, i) ==
  /\ i >= 1
  /\ i + Len(p) - 1 <= Len(s)
  /\ \A k \in 1..Len(p) : s[i + k - 1] = p[k]

\* String.prototype.includes
includes(s, p) == \E i \in 1..(Len(s) + 1) : OccursAt(s, p, i)

\* String.prototype.startsWith
startsWith(s, p) == OccursAt(s, p, 1)

\* p occurs in s at position i, ignoring letter case (the i flag)
OccursAtCI(s, p, i) == OccursAt(toLowerCase(s), toLowerCase(p), i)

\* the whole of s equals p, ignoring letter case
EqualsCI(s, p) == toLowerCase(s) = toLowerCase(p)

RECURSIVE Concat(_)
\* concatenation of a sequence of strings
Concat(ss) == IF ss = <<>> THEN <<>> ELSE Head(ss) \o Concat(Tail(ss))

RECURSIVE join(_, _)
\* Array.prototype.join
join(ss, sep) ==
  IF ss = <<>> THEN <<>>
  ELSE IF Len(ss) = 1 THEN ss[1]
  ELSE ss[1] \o sep \o join(Tail(ss), sep)

RECURSIVE splitChar(_, _)
\* String.prototype.split on a one-character separator (empty pieces kept)
splitChar(s, c) ==
  IF \A i \in 1..Len(s) : s[i] # c THEN <<s>>
  ELSE LET p == CHOOSE i \in 1..Len(s) :
                  s[i] = c /\ \A j \in 1..(i - 1) : s[j] # c
       IN <<SubSeq(s, 1, p - 1)>> \o splitChar(SubSeq(s, p + 1, Len(s)), c)

\* Array.prototype.filter(Boolean) on an array of strings
filterBoolean(ss) == SelectSeq(ss, LAMBDA x : x # <<>>)

RECURSIVE trimStart(_)
trimStart(s) ==
  IF s # <<>> /\ IsSpace(Head(s)) THEN trimStart(Tail(s)) ELSE s

RECURSIVE trimEnd(_)
trimEnd(s) ==
  IF s # <<>> /\ IsSpace(s[Len(s)])
    THEN trimEnd(SubSeq(s, 1, Len(s) - 1)) ELSE s

\* String.prototype.trim
trim(s) == trimEnd(trimStart(s))

\* \b holds in s in front of position i (i in 1..Len(s)+1)
WordBoundary(s, i) ==
  LET before == i >= 2 /\ i - 1 <= Len(s) /\ IsWordChar(s[i - 1])
      after  == i >= 1 /\ i <= Len(s) /\ IsWordChar(s[i])
  IN before # after

RECURSIVE DigitRun(_, _)
\* number of consecutive digits of s from position i on
DigitRun(s, i) ==
  IF i >= 1 /\ i <= Len(s) /\ IsDigit(s[i]) THEN 1 + DigitRun(s, i + 1) ELSE 0

RECURSIVE SpaceRun(_, _)
\* number of consecutive blanks of s from position i on
SpaceRun(s, i) ==
  IF i >= 1 /\ i <= Len(s) /\ IsSpace(s[i]) THEN 1 + SpaceRun(s, i + 1) ELSE 0

\* /^<letter>\d+$/i for a letter out of a set of upper-case letters
IsLetterDigits(tok, letters) ==
  /\ Len(tok) >= 2
  /\ UpChar(tok[1]) \in letters
  /\ \A i \in 2..Len(tok) : IsDigit(tok[i])

\* ------------------------------------------------------------------------
\* parseFilename (filename-parser.ts)
\* ------------------------------------------------------------------------

\* filename.split('.')[0]
beforeFirstDot(s) == splitChar(s, ".")[1]

RECURSIVE DashRun(_, _)
\* number of consecutive dashes of s from position i on
DashRun(s, i) ==
  IF i >= 1 /\ i <= Len(s) /\ s[i] = "-" THEN 1 + DashRun(s, i + 1) ELSE 0

RECURSIVE collapseDashes(_)
\* .replace(/--+/g, '-')
collapseDashes(s) ==
  IF s = <<>> THEN <<>>
  ELSE IF DashRun(s, 1) >= 2
    THEN <<"-">> \o collapseDashes(SubSeq(s, DashRun(s, 1) + 1, Len(s)))
    ELSE <<Head(s)>> \o collapseDashes(Tail(s))

\* .replace(/_/g, '-')
underscoresToDashes(s) ==
  Listed([i \in 1..Len(s) |-> IF s[i] = "_" THEN "-" ELSE s[i]])

RECURSIVE tightenDashes(_)
\* .replace(/\s*-\s*/g, '-')
tightenDashes(s) ==
  IF s = <<>> THEN <<>>
  ELSE LET k == SpaceRun(s, 1)
       IN IF k + 1 <= Len(s) /\ s[k + 1] = "-"
            THEN <<"-">> \o
                 tightenDashes(SubSeq(s, k + 2 + SpaceRun(s, k + 2), Len(s)))
            ELSE <<Head(s)>> \o tightenDashes(Tail(s))

\* the leftmost match of /\{([^}]+)\}/ : <<position of {, position of }>>,
\* or <<0, 0>> when there is none
braceMatch(s) ==
  LET Closes(i, j) == /\ j >= i + 2
                      /\ j <= Len(s)
                      /\ s[j] = "}"
                      /\ \A k \in (i + 1)..(j - 1) : s[k] # "}"
      Opens(i) == s[i] = "{" /\ \E j \in 1..Len(s) : Closes(i, j)
  IN IF \E i \in 1..Len(s) : Opens(i)
       THEN LET i == CHOOSE i \in 1..Len(s) :
                       Opens(i) /\ \A h \in 1..(i - 1) : ~Opens(h)
                j == CHOOSE j \in 1..Len(s) : Closes(i, j)
            IN <<i, j>>
       ELSE <<0, 0>>

\* arabicMatch ? arabicMatch[1].trim() : undefined
arabicTextOf(filename) ==
  LET m == braceMatch(filename)
  IN IF m[1] = 0 THEN Undef
     ELSE trim(SubSeq(filename, m[1] + 1, m[2] - 1))

\* .replace(/\{[^}]+\}/, '')
removeBraces(s) ==
  LET m == braceMatch(s)
  IN IF m[1] = 0 THEN s
     ELSE SubSeq(s, 1, m[1] - 1) \o SubSeq(s, m[2] + 1, Len(s))

\* .replace(/-$/, '')
dropTrailingDash(s) ==
  IF s # <<>> /\ s[Len(s)] = "-" THEN SubSeq(s, 1, Len(s) - 1) ELSE s

nameOnlyOf(filename) ==
  tightenDashes(underscoresToDashes(collapseDashes(beforeFirstDot(filename))))

cleanNameOf(filename) == trim(dropTrailingDash(removeBraces(nameOnlyOf(filename))))

partsOf(filename) == filterBoolean(splitChar(cleanNameOf(filename), "-"))

\* /^P[-]?(\d{4})$/i : the four digits, or Undef
teacherCodeDigits(part) ==
  IF Len(part) = 5 /\ UpChar(part[1]) = "P" /\ DigitRun(part, 2) = 4
    THEN SubSeq(part, 2, 5)
  ELSE IF Len(part) = 6 /\ UpChar(part[1]) = "P" /\ part[2] = "-"
          /\ DigitRun(part, 3) = 4
    THEN SubSeq(part, 3, 6)
  ELSE Undef

\* /^[JMS][1-6]$/i
isYearLevel(part) ==
  /\ Len(part) = 2
  /\ UpChar(part[1]) \in {"J", "M", "S"}
  /\ part[2] \in {"1", "2", "3", "4", "5", "6"}

\* /^(PURE|APPLIED)$/i
isMathType(part) == EqualsCI(part, <<"P","U","R","E">>) \/ EqualsCI(part, <<"A","P","P","L","I","E","D">>)

BranchCodes ==
  { <<"A","R">>, <<"E","N">>, <<"S","C","I">>, <<"S","S">>, <<"M","A","T","H">>, <<"B","I","O">>, <<"C","H">>, <<"P","H","Y">>,
    <<"F","R">>, <<"I","T">>, <<"G","E","O">>, <<"G","E","O","G">>, <<"S","T","A","T","S">>, <<"S","T","A","S","T">>, <<"I","S","C">>,
    <<"C","O","M">>, <<"P","H","L">>, <<"P","S","Y","C","H">>, <<"D","E","U">>, <<"H","X">> }

\* /^(AR|EN|SCI|...|HX)$/i
isBranch(part) == toUpperCase(part) \in BranchCodes

\* /^T[12]$/i
isTerm(part) ==
  Len(part) = 2 /\ UpChar(part[1]) = "T" /\ part[2] \in {"1", "2"}

\* /^[TULCQ]\d+$/i
isMetadataPart(part) == IsLetterDigits(part, {"T", "U", "L", "C", "Q"})

\* /^[TULCPQ]\d+$/i
isMetadataOrCodePart(part) ==
  IsLetterDigits(part, {"T", "U", "L", "C", "P", "Q"})

\* indices of the parts that satisfy a test, in increasing order
IndicesWhere(parts, Test(_)) ==
  SelectSeq([i \in 1..Len(parts) |-> i], LAMBDA i : Test(parts[i]))

\* the last part that satisfies a test, upper-cased, or Undef: the forEach
\* loop assigns the field at every matching part, so the last one stays
lastMatching(parts, Test(_)) ==
  LET idx == IndicesWhere(parts, Test)
  IN IF idx = <<>> THEN Undef ELSE toUpperCase(parts[idx[Len(idx)]])

\* /[Qq]\d+/ somewhere in s
hasQNumber(s) ==
  \E i \in 1..Len(s) : s[i] \in {"Q", "q"} /\ DigitRun(s, i + 1) >= 1

\* /w/i somewhere in s
containsCI(s, w) == \E i \in 1..Len(s) : OccursAtCI(s, w, i)

\* /\bw\b/i somewhere in s
containsWordCI(s, w) ==
  \E i \in 1..Len(s) :
    WordBoundary(s, i) /\ OccursAtCI(s, w, i) /\ WordBoundary(s, i + Len(w))

\* .replace(/\s+/g, ' ')
RECURSIVE squeezeSpaces(_)
squeezeSpaces(s) ==
  IF s = <<>> THEN <<>>
  ELSE IF IsSpace(Head(s))
    THEN <<" ">> \o squeezeSpaces(SubSeq(s, SpaceRun(s, 1) + 1, Len(s)))
    ELSE <<Head(s)>> \o squeezeSpaces(Tail(s))

\* the record returned from the catch block
ErrorRecord ==
  [ type |-> "FULL", academicYear |-> <<"E","r","r","o","r">>, arabicText |-> Undef,
    originalFilename |-> Undef, mathType |-> Undef, teacherCode |-> Undef,
    branch |-> Undef, secondaryBranch |-> Undef, term |-> Undef,
    unit |-> Undef, lesson |-> Undef, class |-> Undef,
    hasBranchConflict |-> FALSE, teacherName |-> Undef ]

\* section 3 of parseFilename: the teacher name parts
teacherNamePartsOf(parts) ==
  LET tcIdx == IndicesWhere(parts, LAMBDA p : teacherCodeDigits(p) # Undef)
      yrIdx == IndicesWhere(parts, isYearLevel)
      brIdx == IndicesWhere(parts, isBranch)
      After(i) == SelectSeq(SubSeq(parts, i + 1, Len(parts)),
                            LAMBDA p : ~isMetadataPart(p))
      NameLike(p) == ~isMetadataOrCodePart(p) /\ \E k \in 1..Len(p) : IsLetter(p[k])
      nl == IndicesWhere(parts, NameLike)
  IN IF tcIdx # <<>> THEN After(tcIdx[Len(tcIdx)])
     ELSE IF yrIdx # <<>> /\ brIdx # <<>> THEN After(brIdx[Len(brIdx)])
     ELSE IF nl # <<>> THEN <<parts[nl[Len(nl)]]>>
     ELSE <<>>

\* section 4 of parseFilename: the academic year once the scan is over
academicYearOf(parts) ==
  LET scanned == lastMatching(parts, isYearLevel)
  IN IF scanned # Undef THEN scanned
     ELSE IF parts # <<>> /\ Len(parts[1]) >= 2
             /\ isYearLevel(SubSeq(parts[1], 1, 2))
       THEN toUpperCase(SubSeq(parts[1], 1, 2))
     ELSE <<"U","n","k","n","o","w","n">>

parseFilename(filename) ==
  IF filename = Undef THEN ErrorRecord
  ELSE
  LET cleanName == cleanNameOf(filename)
      arabicText == arabicTextOf(filename)
      parts == partsOf(filename)
      tcIdx == IndicesWhere(parts, LAMBDA p : teacherCodeDigits(p) # Undef)
      brIdx == IndicesWhere(parts, isBranch)
      branch == IF brIdx = <<>> THEN Undef ELSE toUpperCase(parts[brIdx[1]])
      names == teacherNamePartsOf(parts)
  IN [ type |->
         IF containsWordCI(cleanName, <<"R","E">>) \/ containsCI(cleanName, <<"r","e","v","i","s","i","o","n">>)
           THEN "RE"
         ELSE IF \/ hasQNumber(cleanName)
                 \/ (arabicText # Undef /\ hasQNumber(arabicText))
                 \/ containsWordCI(cleanName, <<"q","u","i","z">>)
                 \/ containsWordCI(cleanName, <<"t","e","s","t">>)
           THEN "QV"
         ELSE "FULL",
       academicYear |-> academicYearOf(parts),
       arabicText |-> arabicText,
       originalFilename |-> filename,
       mathType |-> lastMatching(parts, isMathType),
       teacherCode |->
         IF tcIdx = <<>> THEN Undef
         ELSE toUpperCase(<<"P">> \o teacherCodeDigits(parts[tcIdx[Len(tcIdx)]])),
       branch |-> branch,
       secondaryBranch |->
         IF Len(brIdx) >= 2 THEN toUpperCase(parts[brIdx[2]]) ELSE Undef,
       term |-> lastMatching(parts, isTerm),
       unit |-> lastMatching(parts, LAMBDA p : IsLetterDigits(p, {"U"})),
       lesson |-> lastMatching(parts, LAMBDA p : IsLetterDigits(p, {"L"})),
       class |-> lastMatching(parts, LAMBDA p : IsLetterDigits(p, {"C"})),
       hasBranchConflict |->
         \/ branch = <<"S","C","I">> /\ \E i \in 1..Len(parts) : parts[i] = <<"A","R">>
         \/ branch = <<"A","R">> /\ \E i \in 1..Len(parts) : parts[i] = <<"S","C","I">>,
       teacherName |->
         IF names = <<>> THEN Undef
         ELSE trim(squeezeSpaces(join(names, <<" ">>))) ]

\* ------------------------------------------------------------------------
\* findMatchingLibrary (filename-parser.ts)
\* A library is a record [id, name]; id is an opaque atom.
\* ------------------------------------------------------------------------

\* no library: the null of LibraryMatch.library
NullLibrary == [id |-> "null", name |-> Undef]

\* .replace(/\s+/g, '')
removeSpaces(s) == SelectSeq(s, LAMBDA c : ~IsSpace(c))

\* mutant of teacherCodeScore: a smaller bonus
teacherCodeScore_m(parsed, library) ==
  IF Truthy(parsed.teacherCode) /\ includes(library.name, parsed.teacherCode)
    THEN 30 ELSE 0

\* rule 1 of the scorer: the teacher code
teacherCodeScore(parsed, library) ==
  IF Truthy(parsed.teacherCode) /\ includes(library.name, parsed.teacherCode)
    THEN 40 ELSE 0

\* rule 2 of the scorer: the academic year
academicYearScore(parsed, library) ==
  IF /\ Truthy(parsed.academicYear)
     /\ parsed.academicYear # <<"U","n","k","n","o","w","n">>
     /\ parsed.academicYear # <<"E","r","r","o","r">>
     /\ \/ startsWith(library.name, parsed.academicYear)
        \/ includes(library.name, <<"-">> \o parsed.academicYear \o <<"-">>)
    THEN 30 ELSE 0

\* mutant of mathTypeScore: the bonus and the penalty of a parsed track
\* change places
mathTypeScore_m(parsed, library) ==
  LET libNameUpper == toUpperCase(library.name)
      hasPure == includes(libNameUpper, <<"P","U","R","E">>)
      hasApplied == includes(libNameUpper, <<"A","P","P","L","I","E","D">>)
      own == IF parsed.mathType = <<"P","U","R","E">> THEN hasPure ELSE hasApplied
      other == IF parsed.mathType = <<"P","U","R","E">> THEN hasApplied ELSE hasPure
  IN IF Truthy(parsed.mathType)
       THEN IF own /\ ~other THEN 0 - 50
            ELSE IF own /\ other THEN 40
            ELSE IF other THEN 80
            ELSE 0
     ELSE IF ~hasPure /\ ~hasApplied THEN 20 ELSE 5

\* rule 3 of the scorer: PURE / APPLIED
mathTypeScore(parsed, library) ==
  LET libNameUpper == toUpperCase(library.name)
      hasPure == includes(libNameUpper, <<"P","U","R","E">>)
      hasApplied == includes(libNameUpper, <<"A","P","P","L","I","E","D">>)
  IN IF Truthy(parsed.mathType)
       THEN IF parsed.mathType = <<"P","U","R","E">>
              THEN IF hasPure /\ ~hasApplied THEN 80
                   ELSE IF hasPure /\ hasApplied THEN 40
                   ELSE IF hasApplied /\ ~hasPure THEN 0 - 50
                   ELSE 0
            ELSE IF parsed.mathType = <<"A","P","P","L","I","E","D">>
              THEN IF hasApplied /\ ~hasPure THEN 80
                   ELSE IF hasPure /\ hasApplied THEN 40
                   ELSE IF hasPure /\ ~hasApplied THEN 0 - 50
                   ELSE 0
            ELSE 0
     ELSE IF ~hasPure /\ ~hasApplied THEN 20 ELSE 5

\* rule 4 of the scorer: the branch
branchScore(parsed, library) ==
  LET libNameUpper == toUpperCase(library.name)
      branchPatterns ==
        << <<"-">> \o parsed.branch \o <<"-">>,
           <<"-">> \o toLowerCase(parsed.branch) \o <<"-">>,
           parsed.branch \o <<"-">>,
           toLowerCase(parsed.branch) \o <<"-">> >>
  IN IF /\ Truthy(parsed.branch)
        /\ \E k \in 1..4 :
             \/ includes(libNameUpper, toUpperCase(branchPatterns[k]))
             \/ includes(library.name, branchPatterns[k])
       THEN 25 ELSE 0

\* rule 5 of the scorer: the teacher name
teacherNameScore(parsed, library) ==
  IF /\ Truthy(parsed.teacherName)
     /\ includes(removeSpaces(toLowerCase(library.name)),
                 removeSpaces(toLowerCase(parsed.teacherName)))
    THEN 15 ELSE 0

\* the sum of the five rules, before it is clamped
rawScore(parsed, library) ==
  teacherCodeScore(parsed, library) + academicYearScore(parsed, library)
    + mathTypeScore(parsed, library) + branchScore(parsed, library)
    + teacherNameScore(parsed, library)

Min(a, b) == IF a <= b THEN a ELSE b

Max(a, b) == IF a >= b THEN a ELSE b

maxScore == 200

minScore == 0 - 30

rejectScore == 0 - 20

\* score = Math.max(Math.min(score, maxScore), -30)
clampScore(score) == Max(Min(score, maxScore), minScore)

libraryScore(parsed, library) == clampScore(rawScore(parsed, library))

\* mutant of qualifies: everything down to the clamp floor is kept
qualifies_m(score) == score >= minScore

\* if (score > -20) matches.push(...)
qualifies(score) == score > rejectScore

RECURSIVE insertByScore(_, _)
\* one step of a stable descending sort: m goes behind every entry whose
\* score is not lower
insertByScore(sorted, m) ==
  IF sorted = <<>> THEN <<m>>
  ELSE IF Head(sorted).score >= m.score
    THEN <<Head(sorted)>> \o insertByScore(Tail(sorted), m)
    ELSE <<m>> \o sorted

\* mutant of sortByScore: the matches stay in candidate order
sortByScore_m(ms) == ms

RECURSIVE sortByScore(_)
\* matches.sort((a, b) => b.score - a.score), which is stable
sortByScore(ms) ==
  IF ms = <<>> THEN <<>>
  ELSE insertByScore(sortByScore(SubSeq(ms, 1, Len(ms) - 1)), ms[Len(ms)])

\* the array 'matches' of findMatchingLibrary after the sort
rankedMatches(parsed, libraries) ==
  LET scored == [i \in 1..Len(libraries) |->
                   [library |-> libraries[i],
                    score |-> libraryScore(parsed, libraries[i])]]
  IN sortByScore(SelectSeq(scored, LAMBDA m : qualifies(m.score)))

\* Array.prototype.slice(0, n)
firstN(s, n) == SubSeq(s, 1, Min(n, Len(s)))

maxAlternatives == 5

findMatchingLibrary(parsed, libraries) ==
  LET matches == rankedMatches(parsed, libraries)
      top == firstN(matches, maxAlternatives)
  IN [ library |-> IF matches = <<>> THEN NullLibrary ELSE matches[1].library,
       confidence |-> IF matches = <<>> THEN 0 ELSE matches[1].score,
       alternatives |-> Listed([i \in 1..Len(top) |-> top[i].library]) ]

\* ------------------------------------------------------------------------
\* determineCollection and its detectors (filename-parser.ts)
\* ------------------------------------------------------------------------

arRevision == <<"ar_mim","ar_ra","ar_alif","ar_jim","ar_ain","ar_ta_marbuta">>

arTraining == <<"ar_ta","ar_dal","ar_ra","ar_ya","ar_ba">>

arStudying == <<"ar_mim","ar_dhal","ar_alif","ar_kaf","ar_ra","ar_ta_marbuta">>

arQuestion == <<"ar_sin","ar_waw_hamza","ar_alif","ar_lam">>

arQuestions == <<"ar_alif_hamza","ar_sin","ar_ya_hamza","ar_lam","ar_ta_marbuta">>

arTest == <<"ar_alif","ar_kha","ar_ta","ar_ba","ar_alif","ar_ra">>

arExam == <<"ar_alif","ar_mim","ar_ta","ar_hah","ar_alif","ar_nun">>

arHomework == <<"ar_waw","ar_alif","ar_jim","ar_ba">>

arTheChapter == <<"ar_alif","ar_lam","ar_fa","ar_sad","ar_lam">>

arTheTerm == <<"ar_alif","ar_lam","ar_ta","ar_ra","ar_mim">>

arTheFirst == <<"ar_alif","ar_lam","ar_alif_hamza","ar_waw","ar_lam">>

arTheSecond == <<"ar_alif","ar_lam","ar_tha","ar_alif","ar_nun","ar_ya">>

\* position behind an occurrence of a at i and the white space after it
AfterSpaced(s, i, a) == i + Len(a) + SpaceRun(s, i + Len(a))

\* /a\s*b/i somewhere in s
containsSpacedCI(s, a, b) ==
  \E i \in 1..Len(s) : OccursAtCI(s, a, i) /\ OccursAtCI(s, b, AfterSpaced(s, i, a))

\* /\ba\s*b\b/i somewhere in s
containsSpacedWordCI(s, a, b) ==
  \E i \in 1..Len(s) :
    /\ WordBoundary(s, i)
    /\ OccursAtCI(s, a, i)
    /\ OccursAtCI(s, b, AfterSpaced(s, i, a))
    /\ WordBoundary(s, AfterSpaced(s, i, a) + Len(b))

\* /a\s*\d+/ somewhere in s
containsNumbered(s, a) ==
  \E i \in 1..Len(s) : OccursAt(s, a, i) /\ DigitRun(s, AfterSpaced(s, i, a)) >= 1

\* /\ba\s*\d+\b/i somewhere in s
containsNumberedWordCI(s, a) ==
  \E i \in 1..Len(s) :
    /\ WordBoundary(s, i)
    /\ OccursAtCI(s, a, i)
    /\ DigitRun(s, AfterSpaced(s, i, a)) >= 1
    /\ WordBoundary(s, AfterSpaced(s, i, a) + DigitRun(s, AfterSpaced(s, i, a)))

\* parsed.originalFilename || ''
filenameOf(parsed) ==
  IF Truthy(parsed.originalFilename) THEN parsed.originalFilename ELSE <<>>

isRevisionFile(parsed) ==
  LET filename == filenameOf(parsed)
  IN \/ parsed.type = "RE"
     \* /^RE-|^RE_|^RE\s+/i
     \/ /\ OccursAtCI(filename, <<"R","E">>, 1)
        /\ Len(filename) >= 3
        /\ (filename[3] \in {"-", "_"} \/ IsSpace(filename[3]))
     \* /\brevision\b|\brevise\b|\b<arRevision>\b/i
     \/ containsWordCI(filename, <<"r","e","v","i","s","i","o","n">>)
     \/ containsWordCI(filename, <<"r","e","v","i","s","e">>)
     \/ containsWordCI(filename, arRevision)
     \/ /\ Truthy(parsed.arabicText)
        /\ \/ includes(parsed.arabicText, arRevision)
           \/ includes(parsed.arabicText, arTraining)
           \/ includes(parsed.arabicText, arStudying)

\* /\b[a-z]+\s+quiz\b/i somewhere in s
hasQuizPhrase(s) ==
  \E i \in 2..Len(s) :
    /\ IsSpace(s[i - 1])
    /\ OccursAtCI(s, <<"q","u","i","z">>, i)
    /\ WordBoundary(s, i + 4)
    /\ \E j \in 1..(i - 1) :
         /\ WordBoundary(s, j)
         /\ IsLetter(s[j])
         /\ \E k \in j..(i - 2) :
              /\ \A h \in j..k : IsLetter(s[h])
              /\ \A h \in (k + 1)..(i - 1) : IsSpace(s[h])

isQuestionFile(parsed) ==
  LET filename == filenameOf(parsed)
      arabicText == parsed.arabicText
  IN \/ parsed.type = "QV"
     \/ hasQNumber(filename)
     \/ Truthy(arabicText) /\ hasQNumber(arabicText)
     \/ /\ Truthy(arabicText)
        /\ \/ containsNumbered(arabicText, arQuestion)
           \/ containsNumbered(arabicText, arQuestions)
           \/ containsNumbered(arabicText, arTest)
           \/ containsNumbered(arabicText, arExam)
           \/ /\ includes(arabicText, arHomework)
              /\ \/ hasQNumber(arabicText)
                 \/ includes(arabicText, arQuestion)
                 \/ includes(arabicText, arQuestions)
     \/ /\ \/ containsWordCI(filename, <<"q","u","i","z">>)
           \/ containsWordCI(filename, <<"t","e","s","t">>)
           \/ containsWordCI(filename, <<"e","x","a","m">>)
        /\ ~hasQuizPhrase(filename)
     \/ containsNumberedWordCI(filename, <<"h","w">>)
     \/ containsNumberedWordCI(filename, <<"h","o","m","e","w","o","r","k">>)

\* mutant of determineFileTerm: only the parsed term counts
determineFileTerm_m(parsed) ==
  IF Truthy(parsed.term) THEN parsed.term ELSE <<"T","1">>

determineFileTerm(parsed) ==
  LET filename == filenameOf(parsed)
      First(P(_)) == CHOOSE i \in 1..Len(filename) :
                       P(i) /\ \A h \in 1..(i - 1) : ~P(h)
      \* /\b(T[12])\b/i at position i
      TermAt(i) == /\ WordBoundary(filename, i)
                   /\ i + 1 <= Len(filename)
                   /\ UpChar(filename[i]) = "T"
                   /\ filename[i + 1] \in {"1", "2"}
                   /\ WordBoundary(filename, i + 2)
  IN IF Truthy(parsed.term) THEN parsed.term
     ELSE IF \E i \in 1..Len(filename) : TermAt(i)
       THEN <<"T", filename[First(TermAt) + 1]>>
     ELSE IF \/ containsSpacedWordCI(filename, <<"t","e","r","m">>, <<"1">>)
             \/ containsSpacedWordCI(filename, arTheChapter, arTheFirst)
             \/ containsSpacedWordCI(filename, arTheTerm, arTheFirst)
       THEN <<"T","1">>
     ELSE IF \/ containsSpacedWordCI(filename, <<"t","e","r","m">>, <<"2">>)
             \/ containsSpacedWordCI(filename, arTheChapter, arTheSecond)
             \/ containsSpacedWordCI(filename, arTheTerm, arTheSecond)
       THEN <<"T","2">>
     ELSE IF /\ Truthy(parsed.arabicText)
             /\ \/ includes(parsed.arabicText, arTheChapter \o <<" ">> \o arTheFirst)
                \/ includes(parsed.arabicText, arTheTerm \o <<" ">> \o arTheFirst)
       THEN <<"T","1">>
     ELSE IF /\ Truthy(parsed.arabicText)
             /\ \/ includes(parsed.arabicText, arTheChapter \o <<" ">> \o arTheSecond)
                \/ includes(parsed.arabicText, arTheTerm \o <<" ">> \o arTheSecond)
       THEN <<"T","2">>
     ELSE <<"T","1">>

\* the question test of determineCollection: isQuestionFile and its double check
isQuestion(parsed) ==
  \/ isQuestionFile(parsed)
  \/ Truthy(parsed.arabicText) /\ hasQNumber(parsed.arabicText)
  \/ Truthy(parsed.originalFilename) /\ hasQNumber(parsed.originalFilename)

determineCollection(parsed, year) ==
  IF parsed.academicYear = <<"E","r","r","o","r">>
    THEN [ name |-> <<"P","a","r","s","i","n","g","E","r","r","o","r","-">> \o year,
           reason |-> "Could not parse filename" ]
  ELSE IF isRevisionFile(parsed)
    THEN IF isQuestion(parsed)
           THEN [ name |-> <<"R","E","-">> \o determineFileTerm(parsed) \o <<"-">> \o year \o <<"-","Q","V">>,
                  reason |-> "Revision with questions" ]
           ELSE [ name |-> <<"R","E","-">> \o year,
                  reason |-> "Regular revision video" ]
  ELSE IF isQuestion(parsed)
    THEN [ name |-> determineFileTerm(parsed) \o <<"-">> \o year \o <<"-","Q","V">>,
           reason |-> "Question video" ]
    ELSE [ name |-> determineFileTerm(parsed) \o <<"-">> \o year,
           reason |-> "Regular content video" ]

\* determineLibrary: the suggested library name
determineLibrary(parsed) ==
  LET all == << parsed.academicYear, parsed.mathType,
                IF Truthy(parsed.branch) THEN parsed.branch ELSE <<"U","n","k","n","o","w","n","B","r","a","n","c","h">>,
                IF Truthy(parsed.teacherCode) THEN parsed.teacherCode ELSE <<"U","n","k","n","o","w","n","C","o","d","e">>,
                IF Truthy(parsed.teacherName) THEN parsed.teacherName ELSE <<"U","n","k","n","o","w","n","T","e","a","c","h","e","r">> >>
      kept == SelectSeq(all, LAMBDA p : Truthy(p) /\ p # <<"U","n","k","n","o","w","n">> /\ p # <<"E","r","r","o","r">>)
  IN IF Len(kept) < 2 THEN <<"U","n","k","n","o","w","n","-","L","i","b","r","a","r","y","-","N","e","e","d","s","-","M","a","n","u","a","l","-","C","h","e","c","k">>
     ELSE join(kept, <<"-">>)

\* /\d+/ somewhere in s
hasDigits(s) == \E i \in 1..Len(s) : IsDigit(s[i])

\* isQuestionVideo(videoName) of the final-minutes update: every test reads
\* the whole video name
isQuestionVideo(videoName) ==
  /\ Truthy(videoName)
  /\ \/ hasQNumber(videoName)
     \/ containsNumbered(videoName, arQuestion)
     \/ containsNumbered(videoName, arQuestions)
     \/ containsNumbered(videoName, arTest)
     \/ containsNumbered(videoName, arExam)
     \/ /\ \/ containsWordCI(videoName, <<"q","u","i","z">>)
           \/ containsWordCI(videoName, <<"t","e","s","t">>)
           \/ containsWordCI(videoName, <<"e","x","a","m">>)
        /\ ~hasQuizPhrase(videoName)
     \/ containsNumberedWordCI(videoName, <<"h","w">>)
     \/ containsNumberedWordCI(videoName, <<"h","o","m","e","w","o","r","k">>)
     \/ /\ includes(videoName, arQuestion) \/ includes(videoName, arQuestions)
        /\ hasDigits(videoName)
     \/ /\ includes(videoName, arTest) \/ includes(videoName, arExam)
        /\ hasDigits(videoName)
     \/ /\ containsWordCI(videoName, <<"h","w">>) \/ containsWordCI(videoName, <<"h","o","m","e","w","o","r","k">>)
        /\ hasDigits(videoName)

\* ------------------------------------------------------------------------
\* LibraryMatcher: keys, special rules, suggestions
\* ------------------------------------------------------------------------

\* a Map that is only read by key: a function from keys to values
EmptyMap == <<>>

mapHas(m, k) == k \in DOMAIN m

\* Map.prototype.set
mapSet(m, k, v) == (k :> v) @@ m

\* teacherName.split(' ')[0]
firstNamePart(teacherName) == splitChar(teacherName, " ")[1]

getFilePatternKey(filename, parsed) ==
  LET keyParts ==
        << parsed.academicYear, parsed.mathType, parsed.branch, parsed.teacherCode,
           IF ~Truthy(parsed.teacherCode) /\ Truthy(parsed.teacherName)
             THEN toLowerCase(firstNamePart(parsed.teacherName))
             ELSE Undef >>
  IN join(SelectSeq(keyParts, Truthy), <<"-">>)

\* the key, or Undef for null
getEnhancedPatternKey(parsed) ==
  LET parts == SelectSeq(<< parsed.academicYear, parsed.mathType,
                            parsed.branch, parsed.teacherCode >>, Truthy)
  IN IF Len(parts) >= 2 THEN <<"e","n","h","a","n","c","e","d",":">> \o join(parts, <<"-">>) ELSE Undef

\* /SCI.*AR|AR.*SCI/i
hasSciArPattern(s) ==
  \E i, j \in 1..Len(s) :
    \/ OccursAtCI(s, <<"S","C","I">>, i) /\ j >= i + 3 /\ OccursAtCI(s, <<"A","R">>, j)
    \/ OccursAtCI(s, <<"A","R">>, i) /\ j >= i + 2 /\ OccursAtCI(s, <<"S","C","I">>, j)

\* the key, or Undef for null
getSubjectConflictKey(filename, parsed) ==
  LET parts == SelectSeq(
        << parsed.academicYear, parsed.mathType,
           IF Truthy(parsed.teacherCode) THEN parsed.teacherCode
           ELSE IF Truthy(parsed.teacherName)
             THEN toLowerCase(firstNamePart(parsed.teacherName))
           ELSE Undef >>, Truthy)
  IN IF hasSciArPattern(filename) /\ Len(parts) > 0
       THEN <<"c","o","n","f","l","i","c","t",":">> \o join(parts, <<"-">>)
       ELSE Undef

\* mutant of dashMathType: the track is left out of the key
dashMathType_m(parsed) == <<>>

\* `${parsed.mathType ? '-' + parsed.mathType : ''}`
dashMathType(parsed) ==
  IF Truthy(parsed.mathType) THEN <<"-">> \o parsed.mathType ELSE <<>>

\* `${parsed.teacherCode ? '-' + parsed.teacherCode : ''}`
dashTeacherCode(parsed) ==
  IF Truthy(parsed.teacherCode) THEN <<"-">> \o parsed.teacherCode ELSE <<>>

commonSubjects == << <<"A","R">>, <<"E","N">>, <<"S","C","I">>, <<"M","A","T","H">>, <<"S","S">> >>

generateAlternateKeys(parsed) ==
  LET year == parsed.academicYear
      hasYear == Truthy(year)
      hasType == Truthy(parsed.mathType)
      hasCode == Truthy(parsed.teacherCode)
      hasBranch == Truthy(parsed.branch)
      typed ==
        IF hasType /\ hasYear /\ hasCode
          THEN << year \o <<"-">> \o parsed.mathType \o <<"-">> \o parsed.teacherCode >>
               \o (IF hasBranch
                     THEN << year \o <<"-">> \o parsed.mathType \o <<"-">>
                               \o parsed.branch \o <<"-">> \o parsed.teacherCode >>
                     ELSE <<>>)
          ELSE <<>>
      swapped ==
        IF hasYear /\ hasBranch /\ parsed.branch = <<"S","C","I">>
          THEN << year \o dashMathType(parsed) \o <<"-","A","R">> \o dashTeacherCode(parsed) >>
        ELSE IF hasYear /\ hasBranch /\ parsed.branch = <<"A","R">>
          THEN << year \o dashMathType(parsed) \o <<"-","S","C","I">> \o dashTeacherCode(parsed) >>
        ELSE <<>>
      noBranch ==
        IF hasYear /\ hasBranch /\ hasCode
          THEN << year \o dashMathType(parsed) \o <<"-">> \o parsed.teacherCode >>
        ELSE IF hasYear /\ hasBranch /\ Truthy(parsed.teacherName)
                /\ Truthy(firstNamePart(parsed.teacherName))
          THEN << year \o dashMathType(parsed) \o <<"-">>
                    \o toLowerCase(firstNamePart(parsed.teacherName)) >>
        ELSE <<>>
      common ==
        IF hasYear /\ hasCode /\ ~hasBranch
          THEN [i \in 1..Len(commonSubjects) |->
                  year \o dashMathType(parsed) \o <<"-">> \o commonSubjects[i]
                    \o <<"-">> \o parsed.teacherCode]
          ELSE <<>>
  IN filterBoolean(typed \o swapped \o noBranch \o common)

\* parsed.filename: ParsedFilename records carry originalFilename and no
\* property called filename, so the read yields undefined
filenameProperty(parsed) ==
  IF "filename" \in DOMAIN parsed THEN parsed.filename ELSE Undef

\* rule 1: the track keyword in the library name with confidence >= 65
specialRuleMathType(parsed, bestMatch) ==
  /\ Truthy(parsed.mathType)
  /\ includes(toUpperCase(bestMatch.library.name), parsed.mathType)
  /\ bestMatch.confidence >= 65

\* rule 2: the teacher code in the library name with confidence >= 55
specialRuleTeacherCode(parsed, bestMatch) ==
  /\ Truthy(parsed.teacherCode)
  /\ includes(bestMatch.library.name, parsed.teacherCode)
  /\ bestMatch.confidence >= 55

\* rule 3: year, branch and a teacher name with confidence >= 60
specialRuleYearBranch(parsed, bestMatch) ==
  /\ Truthy(parsed.academicYear)
  /\ Truthy(parsed.branch)
  /\ Truthy(parsed.teacherName)
  /\ startsWith(bestMatch.library.name, parsed.academicYear)
  /\ includes(bestMatch.library.name, parsed.branch)
  /\ bestMatch.confidence >= 60

\* rule 4: the SCI/AR confusion
specialRuleSciAr(parsed, bestMatch) ==
  /\ Truthy(parsed.academicYear)
  /\ Truthy(filenameProperty(parsed))
  /\ hasSciArPattern(filenameProperty(parsed))
  /\ bestMatch.confidence >= 55
  /\ \/ includes(toLowerCase(bestMatch.library.name), <<"-","s","c","i","-">>)
     \/ includes(toLowerCase(bestMatch.library.name), <<"-","a","r","-">>)
  /\ startsWith(bestMatch.library.name, parsed.academicYear)

checkSpecialMatchRules(parsed, bestMatch) ==
  /\ bestMatch.library # NullLibrary
  /\ \/ specialRuleMathType(parsed, bestMatch)
     \/ specialRuleTeacherCode(parsed, bestMatch)
     \/ specialRuleYearBranch(parsed, bestMatch)
     \/ specialRuleSciAr(parsed, bestMatch)

\* the 15 points of calculateMatchScore for every name part found
RECURSIVE namePartsScore(_, _)
namePartsScore(nameParts, normalizedLibName) ==
  IF nameParts = <<>> THEN 0
  ELSE (IF Len(Head(nameParts)) > 2 /\ includes(normalizedLibName, Head(nameParts))
          THEN 15 ELSE 0)
       + namePartsScore(Tail(nameParts), normalizedLibName)

calculateMatchScore(libraryName, parsed) ==
  LET normalizedLibName == toLowerCase(libraryName)
      Has(field) == Truthy(field) /\ includes(normalizedLibName, toLowerCase(field))
  IN Min( (IF Has(parsed.academicYear) THEN 30 ELSE 0)
          + (IF Has(parsed.teacherCode) THEN 40 ELSE 0)
          + (IF Has(parsed.mathType) THEN 35 ELSE 0)
          + (IF Truthy(parsed.teacherName)
               THEN namePartsScore(splitChar(toLowerCase(parsed.teacherName), " "),
                                   normalizedLibName)
               ELSE 0)
          + (IF Has(parsed.branch) THEN 15 ELSE 0),
          100 )

maxSuggestions == 5

suggestionThreshold == 30

\* currentLibraryId is an id, or "null" when there is no best library
getSuggestedLibraries(parsed, libraries, currentLibraryId) ==
  LET found == SelectSeq(libraries, LAMBDA lib : lib.id = currentLibraryId)
      current == IF found = <<>> THEN <<>>
                 ELSE << [id |-> found[1].id, name |-> found[1].name, score |-> 100] >>
      seenBefore(i) == \/ current # <<>> /\ libraries[i].id = current[1].id
                       \/ \E h \in 1..(i - 1) :
                            /\ libraries[h].id = libraries[i].id
                            /\ calculateMatchScore(libraries[h].name, parsed)
                                 > suggestionThreshold
      others == SelectSeq(
                  [i \in 1..Len(libraries) |->
                     [id |-> libraries[i].id, name |-> libraries[i].name,
                      score |-> IF seenBefore(i) THEN 0 - 1
                                ELSE calculateMatchScore(libraries[i].name, parsed)]],
                  LAMBDA m : m.score > suggestionThreshold)
  IN firstN(sortByScore(current \o others), maxSuggestions)

\* item.metadata.suggestedLibraries of tryMatchLibrary
suggestedLibrariesOf(parsed, libraries, bestMatch) ==
  LET s == getSuggestedLibraries(parsed, libraries, bestMatch.library.id)
  IN Listed([i \in 1..Len(s) |->
               [id |-> s[i].id, name |-> s[i].name, confidence |-> s[i].score]])

\* ------------------------------------------------------------------------
\* LibraryMatcher: the learning store and its persistence
\* manualMappings is iterated when it is saved, so it keeps insertion
\* order: a sequence of entries [key, value].
\* ------------------------------------------------------------------------

entryIndex(entries, key) ==
  IF \E i \in 1..Len(entries) : entries[i].key = key
    THEN CHOOSE i \in 1..Len(entries) : entries[i].key = key
    ELSE 0

entriesHas(entries, key) == entryIndex(entries, key) # 0

entriesGet(entries, key) == entries[entryIndex(entries, key)].value

\* Map.prototype.set on an insertion-ordered Map
entriesSet(entries, key, value) ==
  IF entriesHas(entries, key)
    THEN [entries EXCEPT ![entryIndex(entries, key)].value = value]
    ELSE Append(entries, [key |-> key, value |-> value])

RECURSIVE entriesFromArray(_)
\* new Map(array)
entriesFromArray(array) ==
  IF array = <<>> THEN <<>>
  ELSE entriesSet(entriesFromArray(SubSeq(array, 1, Len(array) - 1)),
                  array[Len(array)].key, array[Len(array)].value)

\* JSON text is a sequence of tokens: punctuation, or a string literal
Punct(p) == [t |-> p, v |-> <<>>]

Str(s) == [t |-> "string", v |-> s]

\* the JSON text of one [key, {libraryId, libraryName}] pair
entryJSON(e) ==
  << Punct("["), Str(e.key), Punct(","), Punct("{"),
     Str(<<"l","i","b","r","a","r","y","I","d">>), Punct(":"), Str(<<e.value.libraryId>>), Punct(","),
     Str(<<"l","i","b","r","a","r","y","N","a","m","e">>), Punct(":"), Str(e.value.libraryName),
     Punct("}"), Punct("]") >>

entryJSONLen == 13

RECURSIVE entriesJSON(_)
entriesJSON(entries) ==
  IF entries = <<>> THEN <<>>
  ELSE IF Len(entries) = 1 THEN entryJSON(entries[1])
  ELSE entryJSON(entries[1]) \o <<Punct(",")>> \o entriesJSON(Tail(entries))

\* JSON.stringify(Array.from(this.manualMappings.entries()))
JSONstringify(entries) == <<Punct("[")>> \o entriesJSON(entries) \o <<Punct("]")>>

\* the pair that a 13-token chunk denotes, or the reason it denotes none
chunkOK(c) ==
  /\ Len(c) = entryJSONLen
  /\ c[1] = Punct("[") /\ c[2].t = "string" /\ c[3] = Punct(",")
  /\ c[4] = Punct("{") /\ c[5] = Str(<<"l","i","b","r","a","r","y","I","d">>) /\ c[6] = Punct(":")
  /\ c[7].t = "string" /\ Len(c[7].v) = 1 /\ c[8] = Punct(",")
  /\ c[9] = Str(<<"l","i","b","r","a","r","y","N","a","m","e">>) /\ c[10] = Punct(":") /\ c[11].t = "string"
  /\ c[12] = Punct("}") /\ c[13] = Punct("]")

chunkEntry(c) ==
  [key |-> c[2].v, value |-> [libraryId |-> c[7].v[1], libraryName |-> c[11].v]]

\* JSON.parse of a saved table: [ok |-> the text is such a table,
\* array |-> its pairs]; any other text makes loadManualMappings throw
\* inside its try block
JSONparse(text) ==
  LET body == SubSeq(text, 2, Len(text) - 1)
      n == (Len(body) + 1) \div (entryJSONLen + 1)
      chunk(i) == SubSeq(body, (i - 1) * (entryJSONLen + 1) + 1,
                         (i - 1) * (entryJSONLen + 1) + entryJSONLen)
      wellFormed ==
        /\ Len(text) >= 2
        /\ text[1] = Punct("[") /\ text[Len(text)] = Punct("]")
        /\ \/ body = <<>>
           \/ /\ Len(body) = n * (entryJSONLen + 1) - 1
              /\ \A i \in 1..n : chunkOK(chunk(i))
              /\ \A i \in 1..(n - 1) : body[i * (entryJSONLen + 1)] = Punct(",")
  IN IF wellFormed
       THEN [ok |-> TRUE,
             array |-> IF body = <<>> THEN <<>>
                       ELSE Listed([i \in 1..n |-> chunkEntry(chunk(i))])]
       ELSE [ok |-> FALSE, array |-> <<>>]

\* localStorage.getItem returns null when the key is absent
NoText == <<Punct("null")>>

\* a stored text that is not JSON
CorruptText == <<Punct("{"), Str(<<"x">>)>>

\* loadManualMappings, run by the constructor on an empty manualMappings
loadManualMappings(stored) ==
  IF stored = NoText \/ stored = <<>> THEN <<>>
  ELSE IF JSONparse(stored).ok THEN entriesFromArray(JSONparse(stored).array)
  ELSE <<>>

\* saveManualMappings: the stored text afterwards; setItem may throw (the
\* quota), which the catch block swallows
saveManualMappings(entries, stored, setItemWorks) ==
  IF setItemWorks THEN JSONstringify(entries) ELSE stored

\* isNaN(Number(word)) is false: word is a numeric literal of JavaScript
\* (words hold no white space, dash or underscore here)
isNumericWord(word) ==
  LET unsigned == IF word # <<>> /\ word[1] = "+" THEN Tail(word) ELSE word
      \* digits, at most one point, at least one digit
      isDecimal(w) ==
        /\ w # <<>>
        /\ \A i \in 1..Len(w) : IsDigit(w[i]) \/ w[i] = "."
        /\ Cardinality({i \in 1..Len(w) : w[i] = "."}) <= 1
        /\ \E i \in 1..Len(w) : IsDigit(w[i])
      isExponent(w) ==
        LET u == IF w # <<>> /\ w[1] = "+" THEN Tail(w) ELSE w
        IN u # <<>> /\ \A i \in 1..Len(u) : IsDigit(u[i])
      isRadix(w, letter, digits) ==
        /\ Len(w) >= 3 /\ w[1] = "0" /\ UpChar(w[2]) = letter
        /\ \A i \in 3..Len(w) : UpChar(w[i]) \in digits
  IN \/ isDecimal(unsigned)
     \/ \E i \in 2..(Len(unsigned) - 1) :
          /\ UpChar(unsigned[i]) = "E"
          /\ isDecimal(SubSeq(unsigned, 1, i - 1))
          /\ isExponent(SubSeq(unsigned, i + 1, Len(unsigned)))
     \/ unsigned = <<"I","n","f","i","n","i","t","y">>
     \/ isRadix(word, "X", Digits \cup {"A", "B", "C", "D", "E", "F"})
     \/ isRadix(word, "B", {"0", "1"})
     \/ isRadix(word, "O", {"0", "1", "2", "3", "4", "5", "6", "7"})

\* /[\s\-_]/
isKeywordSeparator(c) == IsSpace(c) \/ c = "-" \/ c = "_"

RECURSIVE splitKeywords(_)
\* filename.split(/[\s\-_]+/)
splitKeywords(s) ==
  IF \A i \in 1..Len(s) : ~isKeywordSeparator(s[i]) THEN <<s>>
  ELSE LET p == CHOOSE i \in 1..Len(s) :
                  isKeywordSeparator(s[i]) /\ \A j \in 1..(i - 1) : ~isKeywordSeparator(s[j])
           q == CHOOSE j \in (p + 1)..(Len(s) + 1) :
                  /\ \A h \in p..(j - 1) : isKeywordSeparator(s[h])
                  /\ (j = Len(s) + 1 \/ ~isKeywordSeparator(s[j]))
       IN <<SubSeq(s, 1, p - 1)>> \o splitKeywords(SubSeq(s, q, Len(s)))

\* the key of the learning store for a filename
keywordKey(filename) ==
  toLowerCase(join(SelectSeq(splitKeywords(filename),
                             LAMBDA word : Len(word) > 2 /\ ~isNumericWord(word)),
                   <<"|">>))

\* ------------------------------------------------------------------------
\* The browser storage behind the cache and the security migration
\* A JavaScript value is a record [t, v]: a string [t |-> "string", v |->
\* its characters], null, an object [t |-> "object", v |-> its entries in
\* insertion order] or an array [t |-> "array", v |-> its items]; the
\* members of objects and arrays are strings or null.  A JSON text is a
\* sequence of tokens.  A stored item is [enc, text]: enc says that the item
\* is the output of encryptData, and text is then what decryptData makes of
\* it; the absent item and the empty string are [enc |-> FALSE, text |-> <<>>].
\* ------------------------------------------------------------------------

\* localStorage.getItem of an absent key (null), which the code treats as
\* it treats the empty string
NoItem == [enc |-> FALSE, text |-> <<>>]

\* the keys of the storage that the cache and the migration use
LegacyKeys == { "bunny_library_api_keys", "bunny_api_key", "app_cache",
                "library_data", "selectedLibrary", "selectedCollection",
                "sheet_configurations" }

StorageKeys ==
  LegacyKeys \cup { "secure_bunny_keys", "secure_library_data",
                    "secure_selectedLibrary", "secure_selectedCollection",
                    "secure_sheet_configurations", "secure_cache",
                    "security_migration_completed" }

EmptyStorage == [k \in StorageKeys |-> NoItem]

\* JSON.parse on a text: [ok |-> the text is JSON, value |-> what it denotes];
\* ok = FALSE is the SyntaxError
parseJSON(text) ==
  LET scalar(tok) == tok.t \in {"string", "cipher", "null"}
      n == Len(text)
      body == SubSeq(text, 2, n - 1)
      m == Len(body)
      members == (m + 1) \div 4
      objectOK ==
        \/ m = 0
        \/ /\ m = 4 * members - 1
           /\ \A i \in 1..members :
                /\ body[4 * i - 3].t = "string"
                /\ body[4 * i - 2].t = ":"
                /\ scalar(body[4 * i - 1])
                /\ i < members => body[4 * i].t = ","
      items == (m + 1) \div 2
      arrayOK ==
        \/ m = 0
        \/ /\ m = 2 * items - 1
           /\ \A i \in 1..items :
                /\ scalar(body[2 * i - 1])
                /\ i < items => body[2 * i].t = ","
  IN IF n = 1 /\ scalar(text[1])
       THEN [ok |-> TRUE, value |-> text[1]]
     ELSE IF n >= 2 /\ text[1].t = "{" /\ text[n].t = "}" /\ objectOK
       THEN [ok |-> TRUE,
             value |-> [t |-> "object",
                        v |-> entriesFromArray(Listed(
                                [i \in 1..members |->
                                   [key |-> body[4 * i - 3].v,
                                    value |-> body[4 * i - 1]]]))]]
     ELSE IF n >= 2 /\ text[1].t = "[" /\ text[n].t = "]" /\ arrayOK
       THEN [ok |-> TRUE,
             value |-> [t |-> "array",
                        v |-> Listed([i \in 1..items |-> body[2 * i - 1]])]]
     ELSE [ok |-> FALSE, value |-> Punct("null")]

\* JSON.stringify on a value
stringifyJSON(value) ==
  LET RECURSIVE membersJSON(_)
      membersJSON(entries) ==
        IF entries = <<>> THEN <<>>
        ELSE (IF Len(entries) = 1 THEN <<>>
              ELSE membersJSON(SubSeq(entries, 1, Len(entries) - 1))
                     \o <<Punct(",")>>)
             \o << Str(entries[Len(entries)].key), Punct(":"),
                   entries[Len(entries)].value >>
      RECURSIVE itemsJSON(_)
      itemsJSON(items) ==
        IF items = <<>> THEN <<>>
        ELSE (IF Len(items) = 1 THEN <<>>
              ELSE itemsJSON(SubSeq(items, 1, Len(items) - 1)) \o <<Punct(",")>>)
             \o << items[Len(items)] >>
  IN IF value.t = "object"
       THEN <<Punct("{")>> \o membersJSON(value.v) \o <<Punct("}")>>
     ELSE IF value.t = "array"
       THEN <<Punct("[")>> \o itemsJSON(value.v) \o <<Punct("]")>>
     ELSE <<value>>

\* encryptData: the item it returns.  The cipher is salt + ':' + the data
\* XORed with the key and the salt, and decryptData splits at ':' and keeps
\* the first two pieces: where the XOR turns a character of the data into
\* ':' (a digit, a lower-case letter or JSON punctuation, under a suitable
\* salt), what follows is lost.  colonAt is the position of the first ':'
\* in the XORed data, 0 for none; the salt is Math.random()
encryptData(data, colonAt) ==
  [enc |-> TRUE,
   text |-> IF colonAt = 0 \/ colonAt > Len(data) THEN data
            ELSE SubSeq(data, 1, colonAt - 1)]

\* decryptData: the text, or '' when the item is not base64 of salt ':'
\* data
decryptData(item) == IF item.enc THEN item.text ELSE <<>>

\* a getAll that makes up an entry whatever the storage holds
secureCacheGetAll_m(ls) ==
  [value |-> [t |-> "object", v |-> <<[key |-> <<"a">>, value |-> Str(<<"0">>)]>>],
   ls |-> ls]

\* SecureCacheManager.getAll: [value |-> the object returned, ls |-> the
\* storage afterwards]
secureCacheGetAll(ls) ==
  LET encryptedData == ls["secure_cache"]
      decryptedData == decryptData(encryptedData)
      parsed == parseJSON(decryptedData)
      emptyObject == [t |-> "object", v |-> <<>>]
  IN IF encryptedData = NoItem THEN [value |-> emptyObject, ls |-> ls]
     ELSE IF decryptedData = <<>> THEN [value |-> emptyObject, ls |-> ls]
     ELSE IF ~parsed.ok
       THEN [value |-> emptyObject,
             ls |-> [ls EXCEPT !["secure_cache"] = NoItem]]
     ELSE IF parsed.value.t \in {"object", "array", "null"}
       THEN [value |-> parsed.value, ls |-> ls]
     ELSE [value |-> emptyObject, ls |-> ls]

\* SecureCacheManager.set; full holds the keys for which setItem throws
\* (the quota)
secureCacheSet(ls, key, value, colonAt, full) ==
  LET got == secureCacheGetAll(ls)
      all == got.value
      written == IF all.t = "object"
                   THEN [t |-> "object", v |-> entriesSet(all.v, key, value)]
                   ELSE all
  IN IF all.t = "null" \/ "secure_cache" \in full THEN got.ls
     ELSE [got.ls EXCEPT
             !["secure_cache"] = encryptData(stringifyJSON(written), colonAt)]

\* CacheManager.initialize, run by the constructor: the in-memory map and
\* the storage afterwards; the function holds no await, so it has run to its
\* end when the constructor returns
initialize(ls) ==
  LET got == secureCacheGetAll(ls)
      savedCache == got.value
      digit(i) == <<"0", "1", "2", "3", "4", "5", "6", "7", "8", "9">>[i + 1]
      all == IF savedCache.t = "object" THEN savedCache.v
             ELSE IF savedCache.t = "array"
               THEN Listed([i \in 1..Len(savedCache.v) |->
                              [key |-> <<digit(i - 1)>>, value |-> savedCache.v[i]]])
             ELSE <<>>
  IN [cache |-> entriesFromArray(SelectSeq(all, LAMBDA e : e.key # <<>>)),
      initialized |-> TRUE,
      ls |-> got.ls]

RECURSIVE saveToSecureStorage(_, _, _, _, _)
\* CacheManager.saveToSecureStorage: every entry of the in-memory map is
\* written with SecureCacheManager.set, one after the other
saveToSecureStorage(ls, initialized, entries, colonAt, full) ==
  IF ~initialized \/ entries = <<>> THEN ls
  ELSE saveToSecureStorage(
         IF entries[1].key # <<>>
           THEN secureCacheSet(ls, entries[1].key, entries[1].value, colonAt, full)
           ELSE ls,
         initialized, Tail(entries), colonAt, full)

\* SecureApiKeyStorage.store: [ls, threw]; the catch block rethrows
secureApiStore(ls, libraryId, apiKey, colonAt, full) ==
  LET encrypted == IF apiKey = <<>> THEN Str(<<>>)
                   ELSE [t |-> "cipher", v |-> encryptData(apiKey, colonAt).text]
      stored == ls["secure_bunny_keys"]
      parsed == parseJSON(stored.text)
      existing == IF stored = NoItem \/ ~parsed.ok
                    THEN [t |-> "object", v |-> <<>>]
                    ELSE parsed.value
      written == IF existing.t = "object"
                   THEN [t |-> "object",
                         v |-> entriesSet(existing.v, libraryId, encrypted)]
                   ELSE existing
  IN IF existing.t \in {"null", "string", "cipher"} \/ "secure_bunny_keys" \in full
       THEN [ls |-> ls, threw |-> TRUE]
     ELSE [ls |-> [ls EXCEPT !["secure_bunny_keys"] =
                     [enc |-> FALSE, text |-> stringifyJSON(written)]],
           threw |-> FALSE]

\* SecureApiKeyStorage.retrieve: the key as a string, or null
secureApiRetrieve(ls, libraryId) ==
  LET stored == ls["secure_bunny_keys"]
      parsed == parseJSON(stored.text)
      all == IF stored = NoItem \/ ~parsed.ok THEN <<>>
             ELSE IF parsed.value.t = "object" THEN parsed.value.v
             ELSE <<>>
      encrypted == IF entriesHas(all, libraryId) THEN entriesGet(all, libraryId)
                   ELSE Punct("null")
  IN IF encrypted.t = "null" \/ encrypted.v = <<>> THEN Punct("null")
     ELSE IF encrypted.t = "cipher" THEN Str(encrypted.v)
     ELSE Str(<<>>)

\* SecureDataStorage.set, which swallows what setItem throws
secureDataSet(ls, key, value, colonAt, full) ==
  IF ("secure_" \o key) \in full THEN ls
  ELSE [ls EXCEPT !["secure_" \o key] = encryptData(stringifyJSON(value), colonAt)]

\* SecureDataStorage.get: the value, or null
secureDataGet(ls, key) ==
  LET encrypted == ls["secure_" \o key]
      parsed == parseJSON(decryptData(encrypted))
  IN IF encrypted = NoItem \/ ~parsed.ok THEN Punct("null")
     ELSE parsed.value

\* ------------------------------------------------------------------------
\* The inputs: filenames, libraries, years
\* ------------------------------------------------------------------------

\* most candidate libraries in one list
MaxLibs == 6

\* most operations (calls, manual selections, saves, reloads) in one run
MaxSteps == 3

\* most calls of tryMatchLibrary waiting for getLibraries at once
MaxInFlight == 2

Lib(id, name) == [id |-> id, name |-> name]

LibraryPool ==
  << Lib("lib1", <<"M","2","-","S","C","I","-","P","0","0","7","8","-","J","o","h","n">>),
     Lib("lib2", <<"M","2","-","A","R","-","P","0","0","7","8","-","J","o","h","n">>),
     Lib("lib3", <<"M","2","-","P","U","R","E","-","M","A","T","H","-","P","0","0","7","8">>),
     Lib("lib4", <<"M","2","-","A","P","P","L","I","E","D","-","M","A","T","H","-","P","0","0","7","8">>),
     Lib("lib5", <<"M","2","-","P","U","R","E","-","M","A","T","H">>),
     Lib("lib6", <<"A","P","P","L","I","E","D">>),
     Lib("lib7", <<"A","P","P","L","I","E","D","-","P","0","0","7","8">>),
     Lib("lib8", <<"M","2","-","P","U","R","E","-","A","P","P","L","I","E","D","-","M","A","T","H">>),
     Lib("lib9", <<"S","1","-","E","N","-","A","l","i">>) >>

\* a library of one branch and one track
BranchTrackLibrary == Lib("lib10", <<"M","2","-","A","R","-","A","P","P","L","I","E","D","-","M","A","T","H">>)

Reverse(s) == Listed([i \in 1..Len(s) |-> s[Len(s) + 1 - i]])

\* the candidate lists of the scorer: the runs of at most MaxLibs
\* neighbours of the pool, in both orders, and the empty list
Windows(pool) ==
  { SubSeq(pool, i, j) : i \in 1..Len(pool), j \in 0..Len(pool) }

LibraryLists ==
  { l \in Windows(LibraryPool) \cup Windows(Reverse(LibraryPool)) : Len(l) <= MaxLibs }

\* six libraries of the other track, alike but for their last letter
AppliedLibraries ==
  << Lib("app1", <<"M","2","-","A","P","P","L","I","E","D","-","M","A","T","H","-","A">>),
     Lib("app2", <<"M","2","-","A","P","P","L","I","E","D","-","M","A","T","H","-","B">>),
     Lib("app3", <<"M","2","-","A","P","P","L","I","E","D","-","M","A","T","H","-","C">>),
     Lib("app4", <<"M","2","-","A","P","P","L","I","E","D","-","M","A","T","H","-","D">>),
     Lib("app5", <<"M","2","-","A","P","P","L","I","E","D","-","M","A","T","H","-","E">>),
     Lib("app6", <<"M","2","-","A","P","P","L","I","E","D","-","M","A","T","H","-","F">>) >>

\* the candidate lists the data storage holds in the runs of the matcher
StoredLibraryLists ==
  { <<>>,
    SubSeq(LibraryPool, 1, Min(4, MaxLibs)),
    <<LibraryPool[6]>>,
    SubSeq(AppliedLibraries, 1, Min(6, MaxLibs)) }

\* the libraries an operator picks by hand
ManualChoices == { LibraryPool[2], LibraryPool[6] }

\* the question word with its article, as the file names of lessons spell it
arTheQuestion == <<"ar_alif","ar_lam">> \o arQuestion

Filenames ==
  { <<"M","2","-","S","C","I","-","P","0","0","7","8","-","J","o","h","n",".","m","p","4">>,
    <<"M","2","-","A","R","-","P","0","0","7","8","-","J","o","h","n",".","m","p","4">>,
    <<"M","2","-","P","U","R","E","-","M","A","T","H","-","P","0","0","7","8",".","m","p","4">>,
    <<"M","2","-","A","P","P","L","I","E","D","-","M","A","T","H","-","P","0","0","7","8",".","m","p","4">>,
    <<"M","2","-","P","U","R","E","-","M","A","T","H",".","m","p","4">>,
    <<"M","2","-","S","C","I",".","m","p","4">>,
    <<"M","2"," ","T","2"," ","L","1",".","m","p","4">>,
    <<"M","2","-","T","2","-","S","C","I","-","Q","1",".","m","p","4">>,
    <<"R","E","-","M","2","-","T","2","-","Q","3",".","m","p","4">>,
    <<"R","E","-","M","2","-","S","C","I",".","m","p","4">>,
    <<"t","e","r","m"," ","2"," ","q","u","i","z",".","m","p","4">>,
    <<"S","1","-","E","N","-","A","l","i",".","m","p","4">>,
    <<"l","e","s","s","o","n",".","m","p","4">>,
    <<"m","a","t","h"," ","q","u","i","z"," ","f","o","r"," ","p","r","a","c","t","i","c","e",".","m","p","4">>,
    <<"m","2","-","s","c","i","-","a","r",".","m","p","4">>,
    <<"M","2","-","S","C","I","-","A","R",".","m","p","4">>,
    <<"R","E","-","M","2","-">> \o arTheQuestion \o <<"-","1",".","m","p","4">>,
    <<"M","2","-","P","U","R","E","-","A","P","P","L","I","E","D","-","M","A","T","H",".","m","p","4">>,
    <<"M","2","-","S","C","I","-","K","a","r","i","m","-","P","0","0","7","8",".","m","p","4">>,
    <<"M","2","-","S","C","I","-","P","-","0","1","2","3","-","K","a","r","i","m",".","m","p","4">>,
    Undef }

\* the filenames of the queue items in the runs of the matcher
QueueFilenames ==
  { <<"M","2","-","S","C","I","-","P","0","0","7","8","-","J","o","h","n",".","m","p","4">>,
    <<"M","2","-","A","R","-","P","0","0","7","8","-","J","o","h","n",".","m","p","4">>,
    <<"M","2","-","P","U","R","E","-","M","A","T","H",".","m","p","4">>,
    <<"M","2","-","S","C","I",".","m","p","4">>,
    <<"l","e","s","s","o","n",".","m","p","4">> }

\* queue items whose filenames name two subjects, hold the letters of a
\* second subject inside a teacher name, or name nothing at all
EdgeFilenames ==
  { <<"M","2","-","A","R","-","S","C","I",".","m","p","4">>,
    <<"M","2","-","S","C","I","-","K","a","r","i","m",".","m","p","4">>,
    <<"0","0","1",".","m","p","4">>,
    <<"0","0","1",".","M","P","4">> }

\* the candidate lists the data storage holds in the runs on those items
EdgeLibraryLists ==
  { <<>>,
    <<BranchTrackLibrary>>,
    SubSeq(LibraryPool, 1, Min(4, MaxLibs)) }

\* queue items of the two tracks and of none, with and without a teacher
\* code and a branch
TrackFilenames ==
  { <<"M","2","-","P","U","R","E","-","M","A","T","H","-","P","0","0","7","8",".","m","p","4">>,
    <<"M","2","-","A","P","P","L","I","E","D","-","M","A","T","H","-","P","0","0","7","8",".","m","p","4">>,
    <<"M","2","-","P","U","R","E","-","M","A","T","H",".","m","p","4">>,
    <<"M","2","-","P","U","R","E","-","P","0","0","7","8",".","m","p","4">>,
    <<"M","2","-","P","0","0","7","8",".","m","p","4">> }

\* the candidate lists of the runs on those items: libraries of one track
\* with the teacher code, alone and beside a library of the other track
TrackLibraryLists ==
  { <<LibraryPool[4]>>,
    <<LibraryPool[7]>>,
    SubSeq(LibraryPool, 3, Min(4, MaxLibs)) }

defaultYear == <<"2","0","2","6">>

\* item.metadata?.year || "2026"
selectedYearOf(year) == IF Truthy(year) THEN year ELSE defaultYear

\* the reference years of determineCollection
Years == { <<"2","0","2","6">>, <<"2","0","2","5">> }

\* item.metadata.year of the queue items: absent
ItemYears == { Undef }

\* ------------------------------------------------------------------------
\* Evaluation tables: what the functions above return for the filenames
\* and library lists of the runs of the matcher, computed once (@@ lists
\* the values)
\* ------------------------------------------------------------------------

\* the cache keys of a queue item
keysFrom(filename, parsed) ==
  [ patternKey |-> getFilePatternKey(filename, parsed),
    enhancedKey |-> getEnhancedPatternKey(parsed),
    alternateKeys |-> generateAlternateKeys(parsed),
    conflictKey |-> getSubjectConflictKey(filename, parsed),
    keywordKey |-> keywordKey(filename) ]

\* determineSuggestedLibraryName(filename, year)
determineSuggestedLibraryName(parsed) == determineLibrary(parsed)

\* what tryMatchLibrary and learnFromManualSelection derive from the
\* filename of a queue item alone
fileFrom(filename, parsed) ==
  [ filename |-> filename,
    parsed |-> parsed,
    keys |-> keysFrom(filename, parsed),
    suggestedLibraryName |-> determineSuggestedLibraryName(parsed),
    collection |-> [y \in Years |-> determineCollection(parsed, y)] @@ <<>> ]

FileTable ==
  [f \in QueueFilenames \cup EdgeFilenames \cup TrackFilenames |->
     fileFrom(f, parseFilename(f))] @@ <<>>

\* parseFilename(item.filename, selectedYear) and what is derived from it
fileOf(filename) == FileTable[filename]

\* ------------------------------------------------------------------------
\* LibraryMatcher: tryMatchLibrary and learnFromManualSelection
\* ------------------------------------------------------------------------

userSelectionConfidence == 100

alternateKeyPenalty == 5

learnedEnhancedConfidence == 95

learnedPatternConfidence == 90

RECURSIVE setAlternates(_, _, _, _)
\* alternateKeys.forEach(key => { if (key && key !== patternKey) set(...) })
setAlternates(cache, keys, patternKey, value) ==
  IF keys = <<>> THEN cache
  ELSE setAlternates(
         IF Truthy(Head(keys)) /\ Head(keys) # patternKey
           THEN mapSet(cache, Head(keys), value) ELSE cache,
         Tail(keys), patternKey, value)

\* mutant of cacheAfterMatch: the pattern key itself is not written
cacheAfterMatch_m(cache, keys, libraryId, libraryName, confidence) ==
  LET entry == [libraryId |-> libraryId, libraryName |-> libraryName,
                confidence |-> confidence]
      c2 == IF Truthy(keys.enhancedKey)
              THEN mapSet(cache, keys.enhancedKey, entry) ELSE cache
  IN setAlternates(c2, keys.alternateKeys, keys.patternKey,
                   [entry EXCEPT !.confidence = confidence - alternateKeyPenalty])

\* the pattern cache after applyMatchAndCache; keys are the cache keys of
\* the item
cacheAfterMatch(cache, keys, libraryId, libraryName, confidence) ==
  LET entry == [libraryId |-> libraryId, libraryName |-> libraryName,
                confidence |-> confidence]
      c1 == mapSet(cache, keys.patternKey, entry)
      c2 == IF Truthy(keys.enhancedKey)
              THEN mapSet(c1, keys.enhancedKey, entry) ELSE c1
  IN setAlternates(c2, keys.alternateKeys, keys.patternKey,
                   [entry EXCEPT !.confidence = confidence - alternateKeyPenalty])

\* the conflict cache after applyMatchAndCache
conflictsAfterMatch(conflicts, keys, libraryId, libraryName) ==
  IF Truthy(keys.conflictKey)
    THEN mapSet(conflicts, keys.conflictKey,
                [libraryId |-> libraryId, libraryName |-> libraryName])
    ELSE conflicts

\* the item fields no path of tryMatchLibrary has assigned
blankItem(filename) ==
  [ filename |-> filename, library |-> "", libraryName |-> <<>>,
    needsManualSelection |-> FALSE, confidence |-> 0, collection |-> <<>>,
    reason |-> "unset", suggestedLibraries |-> <<>>,
    suggestedLibraryName |-> Undef ]

\* applyMatchAndCache: the item and the two caches it writes; m is the
\* matcher [matchCache, userSelectionCache, subjectConflictCache], file
\* the parse result of the item's filename with what is derived from it
applyMatchAndCache(m, it, libraryId, libraryName, confidence, file, year) ==
  [ item |-> [it EXCEPT !.library = libraryId,
                        !.libraryName = libraryName,
                        !.needsManualSelection = FALSE,
                        !.confidence = confidence,
                        !.collection = file.collection[year].name,
                        !.reason = file.collection[year].reason],
    matchCache |-> cacheAfterMatch(m.matchCache, file.keys,
                                   libraryId, libraryName, confidence),
    subjectConflictCache |-> conflictsAfterMatch(m.subjectConflictCache, file.keys,
                                                 libraryId, libraryName) ]

highConfidence == 75

\* mutant of hasHighConfidence: a higher threshold
hasHighConfidence_m(bestMatch) == bestMatch.confidence >= 80

\* criterion 1 of the auto-apply decision
hasHighConfidence(bestMatch) == bestMatch.confidence >= highConfidence

\* criterion 2 of the auto-apply decision
exactTeacherCodeMatch(parsed, bestMatch) ==
  /\ Truthy(parsed.teacherCode)
  /\ bestMatch.library # NullLibrary
  /\ includes(bestMatch.library.name, parsed.teacherCode)

\* criterion 3 of the auto-apply decision
hasMathTypeMatch(parsed, bestMatch) ==
  /\ Truthy(parsed.mathType)
  /\ bestMatch.confidence >= 70
  /\ includes(toUpperCase(bestMatch.library.name), parsed.mathType)

\* the condition of the if statement that auto-applies the best match
autoApplies(parsed, bestMatch) ==
  /\ bestMatch.library # NullLibrary
  /\ \/ hasHighConfidence(bestMatch)
     \/ exactTeacherCodeMatch(parsed, bestMatch)
     \/ hasMathTypeMatch(parsed, bestMatch)
     \/ checkSpecialMatchRules(parsed, bestMatch)

\* what the scorer path derives from the best match
scoringWith(parsed, libraries, bestMatch) ==
  [ bestMatch |-> bestMatch,
    suggestedLibraries |-> suggestedLibrariesOf(parsed, libraries, bestMatch),
    autoApplies |-> autoApplies(parsed, bestMatch) ]

\* findMatchingLibrary(parseResult, libraries) and what follows from it
scoringFrom(parsed, libraries) ==
  scoringWith(parsed, libraries, findMatchingLibrary(parsed, libraries))

ScoreTable ==
  [c \in (QueueFilenames \X StoredLibraryLists)
            \cup (EdgeFilenames \X EdgeLibraryLists)
            \cup (TrackFilenames \X TrackLibraryLists) |->
     scoringFrom(parseFilename(c[1]), c[2])] @@ <<>>

\* what the scorer path computes for a queue item and a candidate list
scoringOf(filename, libraries) == ScoreTable[<<filename, libraries>>]

\* mutant of flagForManualSelection: the confidence is reset
flagForManualSelection_m(it, bestMatch, file, selectedYear) ==
  [it EXCEPT !.needsManualSelection = TRUE,
             !.library = "",
             !.libraryName = <<>>,
             !.suggestedLibraryName = file.suggestedLibraryName,
             !.collection = file.collection[selectedYear].name,
             !.reason = file.collection[selectedYear].reason,
             !.confidence = 0]

\* the else branch of tryMatchLibrary: manual selection is needed
flagForManualSelection(it, bestMatch, file, selectedYear) ==
  [it EXCEPT !.needsManualSelection = TRUE,
             !.library = "",
             !.libraryName = <<>>,
             !.suggestedLibraryName = file.suggestedLibraryName,
             !.collection = file.collection[selectedYear].name,
             !.reason = file.collection[selectedYear].reason,
             !.confidence = bestMatch.confidence]

\* variant: the fallback collection is not computed
failedItem_m(it, file, year) ==
  [it EXCEPT !.needsManualSelection = TRUE,
             !.library = "",
             !.libraryName = <<>>,
             !.confidence = 0]

\* the catch block of tryMatchLibrary
failedItem(it, file, year) ==
  [it EXCEPT !.needsManualSelection = TRUE,
             !.library = "",
             !.libraryName = <<>>,
             !.collection = file.collection[selectedYearOf(year)].name,
             !.confidence = 0]

\* mutant of matchPath: the pattern cache is looked up before the user
\* selections
matchPath_m(m, file, scoring, libraries) ==
  IF libraries = <<>> THEN "error"
  ELSE IF mapHas(m.matchCache, file.keys.patternKey) THEN "pattern"
  ELSE IF mapHas(m.userSelectionCache, file.filename) THEN "user"
  ELSE IF scoring.autoApplies THEN "auto"
  ELSE "manual"

\* which of its return paths a call of tryMatchLibrary takes
matchPath(m, file, scoring, libraries) ==
  IF libraries = <<>> THEN "error"
  ELSE IF mapHas(m.userSelectionCache, file.filename) THEN "user"
  ELSE IF mapHas(m.matchCache, file.keys.patternKey) THEN "pattern"
  ELSE IF scoring.autoApplies THEN "auto"
  ELSE "manual"

\* tryMatchLibrary from the point where getLibraries has delivered
\* 'libraries': the item and the caches afterwards. file is the row of
\* FileTable for the item's filename, scoring the row of ScoreTable for
\* the filename and the libraries
tryMatchLibrary(m, file, scoring, year, libraries) ==
  LET it == blankItem(file.filename)
      selectedYear == selectedYearOf(year)
      bestMatch == scoring.bestMatch
      path == matchPath(m, file, scoring, libraries)
      unchanged(newItem) ==
        [item |-> newItem, matchCache |-> m.matchCache,
         subjectConflictCache |-> m.subjectConflictCache]
      userMatch == m.userSelectionCache[file.filename]
      patternMatch == m.matchCache[file.keys.patternKey]
      suggested == [it EXCEPT !.suggestedLibraries = scoring.suggestedLibraries]
      outcome ==
        IF path = "error" THEN unchanged(failedItem(it, file, year))
        ELSE IF path = "user"
          THEN applyMatchAndCache(m, it, userMatch.libraryId, userMatch.libraryName,
                                  userSelectionConfidence, file, selectedYear)
        ELSE IF path = "pattern"
          THEN applyMatchAndCache(m, it, patternMatch.libraryId,
                                  patternMatch.libraryName, patternMatch.confidence,
                                  file, selectedYear)
        ELSE IF path = "auto"
          THEN applyMatchAndCache(m, suggested, bestMatch.library.id,
                                  bestMatch.library.name, bestMatch.confidence,
                                  file, selectedYear)
        ELSE unchanged(flagForManualSelection(suggested, bestMatch, file, selectedYear))
  IN [ item |-> outcome.item, matchCache |-> outcome.matchCache,
       subjectConflictCache |-> outcome.subjectConflictCache, path |-> path ]

\* variant: the manual selection clears the cache before it writes
cacheAfterLearning_m(cache, keys, libraryId, libraryName) ==
  mapSet(EmptyMap, keys.patternKey,
         [libraryId |-> libraryId, libraryName |-> libraryName,
          confidence |-> learnedPatternConfidence])

\* the pattern cache after learnFromManualSelection
cacheAfterLearning(cache, keys, libraryId, libraryName) ==
  LET c1 == IF Truthy(keys.enhancedKey)
              THEN mapSet(cache, keys.enhancedKey,
                          [libraryId |-> libraryId, libraryName |-> libraryName,
                           confidence |-> learnedEnhancedConfidence])
              ELSE cache
  IN mapSet(c1, keys.patternKey,
            [libraryId |-> libraryId, libraryName |-> libraryName,
             confidence |-> learnedPatternConfidence])

\* variant: a key the store already maps is learned again
learnsKeywords_m(entries, keys) == keys.keywordKey # <<>>

\* whether learnFromManualSelection adds the keyword key of the filename
learnsKeywords(entries, keys) ==
  /\ keys.keywordKey # <<>>
  /\ ~entriesHas(entries, keys.keywordKey)

\* the learning store after learnFromManualSelection
mappingsAfterLearning(entries, keys, libraryId, libraryName) ==
  IF learnsKeywords(entries, keys)
    THEN entriesSet(entries, keys.keywordKey,
                    [libraryId |-> libraryId, libraryName |-> libraryName])
    ELSE entries

\* ------------------------------------------------------------------------
\* State
\* ------------------------------------------------------------------------

VARIABLES
  matchCache,            \* LibraryMatcher.matchCache
  userSelectionCache,    \* LibraryMatcher.userSelectionCache
  subjectConflictCache,  \* LibraryMatcher.subjectConflictCache
  manualMappings,        \* LibraryMatcher.manualMappings
  storedMappings,        \* localStorage item 'manualLibraryMappings'
  libraryData,           \* the libraries of dataStorage.getLibraryData()
  pending,               \* calls of tryMatchLibrary suspended at their await
  item,                  \* the queue item of the call that completed last
  last,                  \* what the last step did
  learned,               \* filename -> the library last chosen by hand for it,
                         \* and whether this matcher was the one taught
  applied,               \* pattern key -> the match this matcher applied last
                         \* to an item of that key
  steps,                 \* operations so far
  localStorage,          \* the browser storage: key -> item
  cache,                 \* CacheManager.cache, in insertion order
  initialized,           \* CacheManager.initialized
  input,                 \* arguments of the pure function applied
  output                 \* its result

matcherVars == << matchCache, userSelectionCache, subjectConflictCache,
                  manualMappings, storedMappings, libraryData, pending, item,
                  last, learned, applied, steps >>

pureVars == << input, output >>

storeVars == << localStorage, cache, initialized >>

vars == << matchCache, userSelectionCache, subjectConflictCache,
           manualMappings, storedMappings, libraryData, pending, item,
           last, learned, applied, steps, localStorage, cache, initialized,
           input, output >>

\* the matcher as the operators above take it
matcher == [ matchCache |-> matchCache,
             userSelectionCache |-> userSelectionCache,
             subjectConflictCache |-> subjectConflictCache ]

NoStep == [ op |-> "none", path |-> "none", filename |-> Undef, year |-> Undef,
            libraries |-> <<>> ]

NoInput == [ filename |-> Undef, year |-> Undef, libraries |-> <<>> ]

NoOutput == [ fn |-> "none", parsed |-> ErrorRecord, scores |-> <<>>,
              question |-> FALSE,
              match |-> [library |-> NullLibrary, confidence |-> 0, alternatives |-> <<>>],
              collection |-> [name |-> <<>>, reason |-> "unset"] ]

\* ------------------------------------------------------------------------
\* The matcher: construction and operations
\* ------------------------------------------------------------------------

\* new LibraryMatcher() in a browser whose storage holds libraries from an
\* earlier session, or none, and no learned mappings or an unreadable item
Init ==
  /\ matchCache = EmptyMap
  /\ userSelectionCache = EmptyMap
  /\ subjectConflictCache = EmptyMap
  /\ storedMappings \in {NoText, CorruptText}
  /\ manualMappings = loadManualMappings(storedMappings)
  /\ libraryData \in StoredLibraryLists
  /\ pending = <<>>
  /\ item = blankItem(Undef)
  /\ last = NoStep
  /\ learned = EmptyMap
  /\ applied = EmptyMap
  /\ steps = 0
  /\ input = NoInput
  /\ output = NoOutput
  /\ localStorage = EmptyStorage
  /\ cache = initialize(EmptyStorage).cache
  /\ initialized = initialize(EmptyStorage).initialized

\* tryMatchLibrary up to 'await this.getLibraries()': the library data
\* object of this moment is what the call will work on
CallTryMatch(filename, year) ==
  /\ steps < MaxSteps
  /\ Len(pending) < MaxInFlight
  /\ pending' = Append(pending, [filename |-> filename, year |-> year,
                                 libraries |-> libraryData])
  /\ last' = [op |-> "call", path |-> "none", filename |-> filename, year |-> year,
              libraries |-> libraryData]
  /\ steps' = steps + 1
  /\ UNCHANGED << matchCache, userSelectionCache, subjectConflictCache,
                  manualMappings, storedMappings, libraryData, item, learned,
                  applied >>
  /\ UNCHANGED pureVars
  /\ UNCHANGED storeVars

\* what a call of tryMatchLibrary leaves behind when it returns with r
returnTryMatch(call, file, r) ==
  /\ item' = r.item
  /\ matchCache' = r.matchCache
  /\ subjectConflictCache' = r.subjectConflictCache
  /\ last' = [op |-> "match", path |-> r.path,
              filename |-> call.filename, year |-> call.year,
              libraries |-> call.libraries]
  /\ applied' =
       IF r.item.needsManualSelection THEN applied
       ELSE mapSet(applied, file.keys.patternKey,
                   [libraryId |-> r.item.library,
                    libraryName |-> r.item.libraryName,
                    confidence |-> r.item.confidence])

\* the rest of a call of tryMatchLibrary, which runs without another
\* suspension
resumeTryMatch(call, file, scoring) ==
  returnTryMatch(call, file,
                 tryMatchLibrary(matcher, file, scoring, call.year, call.libraries))

\* the oldest suspended call is resumed
ResumeTryMatch ==
  /\ pending # <<>>
  /\ resumeTryMatch(Head(pending), fileOf(Head(pending).filename),
                    scoringOf(Head(pending).filename, Head(pending).libraries))
  /\ pending' = Tail(pending)
  /\ UNCHANGED << userSelectionCache, manualMappings, storedMappings, libraryData,
                  learned, steps >>
  /\ UNCHANGED pureVars
  /\ UNCHANGED storeVars

\* learnFromManualSelection(filename, libraryId, libraryName); file is the
\* row of FileTable for the filename
learnFromManualSelection(file, libraryId, libraryName, setItemWorks) ==
  /\ userSelectionCache' =
       mapSet(userSelectionCache, file.filename,
              [libraryId |-> libraryId, libraryName |-> libraryName])
  /\ matchCache' = cacheAfterLearning(matchCache, file.keys, libraryId, libraryName)
  /\ manualMappings' =
       mappingsAfterLearning(manualMappings, file.keys, libraryId, libraryName)
  /\ storedMappings' =
       IF learnsKeywords(manualMappings, file.keys)
         THEN saveManualMappings(manualMappings', storedMappings, setItemWorks)
         ELSE storedMappings
  /\ learned' = mapSet(learned, file.filename,
                       [libraryId |-> libraryId, libraryName |-> libraryName,
                        thisMatcher |-> TRUE])

\* an operator picks a library by hand for a queue item
LearnFromManualSelection(filename, library, setItemWorks) ==
  /\ steps < MaxSteps
  /\ learnFromManualSelection(fileOf(filename), library.id, library.name,
                              setItemWorks)
  /\ last' = [op |-> "learn", path |-> "none", filename |-> filename, year |-> Undef,
              libraries |-> <<library>>]
  /\ steps' = steps + 1
  /\ UNCHANGED << subjectConflictCache, libraryData, pending, item, applied >>
  /\ UNCHANGED pureVars
  /\ UNCHANGED storeVars

\* dataStorage.saveLibraryData: the candidate libraries are replaced
SaveLibraryData(libraries) ==
  /\ steps < MaxSteps
  /\ libraries # libraryData
  /\ libraryData' = libraries
  /\ last' = [op |-> "save", path |-> "none", filename |-> Undef, year |-> Undef,
              libraries |-> libraries]
  /\ steps' = steps + 1
  /\ UNCHANGED << matchCache, userSelectionCache, subjectConflictCache,
                  manualMappings, storedMappings, pending, item, learned,
                  applied >>
  /\ UNCHANGED pureVars
  /\ UNCHANGED storeVars

\* the page is reloaded: a new LibraryMatcher is constructed, the browser
\* storage stays, the suspended calls are gone
Restart ==
  /\ steps < MaxSteps
  /\ matchCache' = EmptyMap
  /\ userSelectionCache' = EmptyMap
  /\ subjectConflictCache' = EmptyMap
  /\ manualMappings' = loadManualMappings(storedMappings)
  /\ pending' = <<>>
  /\ applied' = EmptyMap
  /\ learned' = [f \in DOMAIN learned |->
                   [learned[f] EXCEPT !.thisMatcher = FALSE]] @@ <<>>
  /\ last' = [op |-> "restart", path |-> "none", filename |-> Undef, year |-> Undef,
              libraries |-> <<>>]
  /\ steps' = steps + 1
  /\ UNCHANGED << storedMappings, libraryData, item >>
  /\ UNCHANGED pureVars
  /\ localStorage' = initialize(localStorage).ls
  /\ cache' = initialize(localStorage).cache
  /\ initialized' = initialize(localStorage).initialized

Next ==
  \/ \E f \in QueueFilenames, y \in ItemYears : CallTryMatch(f, y)
  \/ ResumeTryMatch
  \/ \E f \in QueueFilenames, l \in ManualChoices, w \in BOOLEAN :
       LearnFromManualSelection(f, l, w)
  \/ \E l \in StoredLibraryLists : SaveLibraryData(l)
  \/ Restart

Spec == Init /\ [][Next]_vars

\* ------------------------------------------------------------------------
\* The matcher on the queue items of EdgeFilenames
\* ------------------------------------------------------------------------

InitEdge ==
  /\ matchCache = EmptyMap
  /\ userSelectionCache = EmptyMap
  /\ subjectConflictCache = EmptyMap
  /\ storedMappings \in {NoText, CorruptText}
  /\ manualMappings = loadManualMappings(storedMappings)
  /\ libraryData \in EdgeLibraryLists
  /\ pending = <<>>
  /\ item = blankItem(Undef)
  /\ last = NoStep
  /\ learned = EmptyMap
  /\ applied = EmptyMap
  /\ steps = 0
  /\ input = NoInput
  /\ output = NoOutput
  /\ localStorage = EmptyStorage
  /\ cache = initialize(EmptyStorage).cache
  /\ initialized = initialize(EmptyStorage).initialized

NextEdge ==
  \/ \E f \in EdgeFilenames, y \in ItemYears : CallTryMatch(f, y)
  \/ ResumeTryMatch
  \/ \E f \in EdgeFilenames, l \in ManualChoices, w \in BOOLEAN :
       LearnFromManualSelection(f, l, w)
  \/ \E l \in EdgeLibraryLists : SaveLibraryData(l)
  \/ Restart

SpecEdge == InitEdge /\ [][NextEdge]_vars

\* ------------------------------------------------------------------------
\* The pure functions applied to one input
\* ------------------------------------------------------------------------

PureInputs ==
  { [filename |-> f, year |-> y, libraries |-> l] :
      f \in Filenames, y \in Years, l \in LibraryLists }

InitPure ==
  /\ matchCache = EmptyMap
  /\ userSelectionCache = EmptyMap
  /\ subjectConflictCache = EmptyMap
  /\ storedMappings = NoText
  /\ manualMappings = <<>>
  /\ libraryData = <<>>
  /\ pending = <<>>
  /\ item = blankItem(Undef)
  /\ last = NoStep
  /\ learned = EmptyMap
  /\ applied = EmptyMap
  /\ steps = 0
  /\ input \in PureInputs
  /\ output = NoOutput
  /\ localStorage = EmptyStorage
  /\ cache = initialize(EmptyStorage).cache
  /\ initialized = initialize(EmptyStorage).initialized

\* determineCollection(parseFilename(filename, year), year)
ApplyDetermineCollection ==
  /\ output.fn = "none"
  /\ output' = [output EXCEPT
                  !.fn = "determineCollection",
                  !.parsed = parseFilename(input.filename),
                  !.collection = determineCollection(parseFilename(input.filename),
                                                     input.year)]
  /\ UNCHANGED input
  /\ UNCHANGED matcherVars
  /\ UNCHANGED storeVars

\* findMatchingLibrary(parseFilename(filename, year), libraries); scores is
\* the clamped score the loop logs for every candidate
ApplyFindMatchingLibrary ==
  /\ output.fn = "none"
  /\ output' = [output EXCEPT
                  !.fn = "findMatchingLibrary",
                  !.parsed = parseFilename(input.filename),
                  !.scores = Listed([i \in 1..Len(input.libraries) |->
                               libraryScore(parseFilename(input.filename),
                                            input.libraries[i])]),
                  !.match = findMatchingLibrary(parseFilename(input.filename),
                                                input.libraries)]
  /\ UNCHANGED input
  /\ UNCHANGED matcherVars
  /\ UNCHANGED storeVars

\* isQuestionVideo(video.name) of the final-minutes update, on the name of a
\* video that determineCollection has routed
ApplyIsQuestionVideo ==
  /\ output.fn = "determineCollection"
  /\ output' = [output EXCEPT
                  !.fn = "isQuestionVideo",
                  !.question = isQuestionVideo(input.filename)]
  /\ UNCHANGED input
  /\ UNCHANGED matcherVars
  /\ UNCHANGED storeVars

NextPure ==
  ApplyDetermineCollection \/ ApplyFindMatchingLibrary \/ ApplyIsQuestionVideo

SpecPure == InitPure /\ [][NextPure]_vars

\* ------------------------------------------------------------------------
\* The cache manager and the security migration on the browser storage
\* ------------------------------------------------------------------------

plain(text) == [enc |-> FALSE, text |-> text]

object(entries) == [t |-> "object", v |-> entries]

\* what an earlier version of the application left in the storage
LegacyProfiles ==
  { EmptyStorage,
    [EmptyStorage EXCEPT
       !["bunny_library_api_keys"] =
          plain(stringifyJSON(object(<<[key |-> <<"l","i","b","1">>, value |-> Str(<<"k","1">>)]>>))),
       !["bunny_api_key"] = plain(<<[t |-> "raw", v |-> <<"k","0">>]>>),
       !["app_cache"] =
          plain(stringifyJSON(object(<<[key |-> <<"d","e","f","a","u","l","t","_","a","p","i","_","k","e","y">>, value |-> Str(<<"k","9">>)],
                                       [key |-> <<"t","a","b">>, value |-> Str(<<"u","p","l","o","a","d">>)]>>))),
       !["library_data"] =
          plain(stringifyJSON(object(<<[key |-> <<"l","a","s","t","U","p","d","a","t","e","d">>, value |-> Str(<<"t","o","d","a","y">>)]>>))),
       !["selectedLibrary"] =
          plain(stringifyJSON(object(<<[key |-> <<"i","d">>, value |-> Str(<<"l","i","b","1">>)]>>))),
       !["selectedCollection"] =
          plain(stringifyJSON(object(<<[key |-> <<"i","d">>, value |-> Str(<<"c","o","l","1">>)]>>))),
       !["sheet_configurations"] =
          plain(stringifyJSON([t |-> "array", v |-> <<Str(<<"s","h","e","e","t","1">>)>>]))],
    [EmptyStorage EXCEPT
       !["bunny_api_key"] = plain(<<[t |-> "raw", v |-> <<"k","0">>]>>),
       !["library_data"] = plain(CorruptText)],
    [EmptyStorage EXCEPT
       !["selectedLibrary"] = plain(<<Str(<<"l","i","b","1">>)>>),
       !["app_cache"] =
          plain(stringifyJSON(object(<<[key |-> <<"t","a","b">>, value |-> Str(<<"u","p","l","o","a","d">>)]>>)))] }

\* the item 'secure_cache' of an earlier session: none, one that is not
\* base64, a cipher of a text that is not JSON, of null, of an object
CacheBlobs ==
  { NoItem,
    plain(CorruptText),
    encryptData(CorruptText, 0),
    encryptData(<<Punct("null")>>, 0),
    encryptData(stringifyJSON(object(<<[key |-> <<"a">>, value |-> Str(<<"0">>)]>>)), 0) }

InitialStorages ==
  { [p EXCEPT !["secure_cache"] = b] : p \in LegacyProfiles, b \in CacheBlobs }

CacheKeys == { <<"a">>, <<"b">> }

\* what goes wrong in one operation: colonAt is where the salt puts the
\* first ':' of its ciphers (0: nowhere), full holds the writes the quota
\* refuses
Mishaps ==
  { [colonAt |-> 0, full |-> {}],
    [colonAt |-> 2, full |-> {}],
    [colonAt |-> 0, full |-> {"secure_cache"}],
    [colonAt |-> 0, full |-> {"secure_library_data"}],
    [colonAt |-> 0, full |-> {"secure_bunny_keys"}] }

StoreFilenames == { <<"M","2","-","S","C","I","-","K","a","r","i","m",".","m","p","4">> }

\* the stored cache item is missing, is no cipher, or is no JSON
badBlob(ls) ==
  \/ ls["secure_cache"] = NoItem
  \/ decryptData(ls["secure_cache"]) = <<>>
  \/ ~parseJSON(decryptData(ls["secure_cache"])).ok

\* what a step on the storage did, for the properties; afterBad: loadCache
\* has found the stored item missing, undecodable or no JSON, in this step
\* or an earlier one
storeStep(op, key, colonAt, full, afterBad) ==
  [op |-> op, path |-> "none", filename |-> Undef, year |-> Undef,
   libraries |-> <<>>, key |-> key, colonAt |-> colonAt, full |-> full,
   afterBad |-> afterBad]

wasAfterBad == "afterBad" \in DOMAIN last /\ last.afterBad

\* the page is opened: the module-level CacheManager and a LibraryMatcher
\* are constructed
InitStore ==
  /\ matchCache = EmptyMap
  /\ userSelectionCache = EmptyMap
  /\ subjectConflictCache = EmptyMap
  /\ storedMappings \in {NoText, CorruptText}
  /\ manualMappings = loadManualMappings(storedMappings)
  /\ libraryData = <<>>
  /\ pending = <<>>
  /\ item = blankItem(Undef)
  /\ last = NoStep
  /\ learned = EmptyMap
  /\ applied = EmptyMap
  /\ steps = 0
  /\ input = NoInput
  /\ output = NoOutput
  /\ \E ls \in InitialStorages :
       /\ localStorage = initialize(ls).ls
       /\ cache = initialize(ls).cache
       /\ initialized = initialize(ls).initialized

\* loadCache()
LoadCache(colonAt, full) ==
  /\ steps < MaxSteps
  /\ LET got == secureCacheGetAll(localStorage)
         cachedData == got.value
         \* cache.clear(): the map and the stored item
         cleared == [got.ls EXCEPT !["secure_cache"] = NoItem]
         RECURSIVE setAll(_, _, _)
         \* cache.set(key, value) for every entry: [entries, ls]
         setAll(entries, ls, rest) ==
           IF rest = <<>> THEN [entries |-> entries, ls |-> ls]
           ELSE IF rest[1].key = <<>> THEN setAll(entries, ls, Tail(rest))
           ELSE setAll(entriesSet(entries, rest[1].key, rest[1].value),
                       saveToSecureStorage(
                         ls, initialized,
                         entriesSet(entries, rest[1].key, rest[1].value),
                         colonAt, full),
                       Tail(rest))
         digit(i) == <<"0", "1", "2", "3", "4", "5", "6", "7", "8", "9">>[i + 1]
         \* Object.entries(cachedData), of null none
         all == IF cachedData.t = "object" THEN cachedData.v
                ELSE IF cachedData.t = "array"
                  THEN Listed([i \in 1..Len(cachedData.v) |->
                                 [key |-> <<digit(i - 1)>>,
                                  value |-> cachedData.v[i]]])
                ELSE <<>>
         loaded == setAll(<<>>, cleared, all)
     IN IF ~initialized
          THEN UNCHANGED << cache, localStorage >>
        ELSE IF all # <<>>
          THEN cache' = loaded.entries /\ localStorage' = loaded.ls
        ELSE cache' = <<>> /\ localStorage' = cleared
  /\ last' = storeStep("loadCache", <<>>, colonAt, full,
                        \/ wasAfterBad
                        \/ badBlob(localStorage))
  /\ steps' = steps + 1
  /\ UNCHANGED initialized
  /\ UNCHANGED << matchCache, userSelectionCache, subjectConflictCache,
                  manualMappings, storedMappings, libraryData, pending, item,
                  learned, applied >>
  /\ UNCHANGED pureVars

\* cache.set(key, value)
CacheSet(key, value, colonAt, full) ==
  /\ steps < MaxSteps
  /\ IF key = <<>>
       THEN UNCHANGED << cache, localStorage >>
       ELSE /\ cache' = entriesSet(cache, key, value)
            /\ localStorage' = saveToSecureStorage(localStorage, initialized,
                                                   cache', colonAt, full)
  /\ last' = storeStep("cacheSet", key, colonAt, full, wasAfterBad)
  /\ steps' = steps + 1
  /\ UNCHANGED initialized
  /\ UNCHANGED << matchCache, userSelectionCache, subjectConflictCache,
                  manualMappings, storedMappings, libraryData, pending, item,
                  learned, applied >>
  /\ UNCHANGED pureVars

\* localStorage.removeItem(key)
removeItem(ls, key) == [ls EXCEPT ![key] = NoItem]

\* Object.entries(value)
objectEntries(value) ==
  LET digit(i) == <<"0", "1", "2", "3", "4", "5", "6", "7", "8", "9">>[i + 1]
  IN IF value.t = "object" THEN value.v
     ELSE IF value.t = "array"
       THEN Listed([i \in 1..Len(value.v) |->
                      [key |-> <<digit(i - 1)>>, value |-> value.v[i]]])
     ELSE <<>>

\* typeof value === 'string' of a truthy value
isString(value) == value.t \in {"string", "cipher"} /\ value.v # <<>>

RECURSIVE storeAll(_, _, _, _)
\* the forEach of migrateApiKeys, from the entry at the head on, whose
\* store returned stored: [ls, threw]
storeNext(ls, entries, stored, colonAt, full) ==
  IF stored.threw THEN [ls |-> ls, threw |-> TRUE]
  ELSE storeAll(stored.ls, Tail(entries), colonAt, full)

\* the forEach of migrateApiKeys: [ls, threw]
storeAll(ls, entries, colonAt, full) ==
  IF entries = <<>> THEN [ls |-> ls, threw |-> FALSE]
  ELSE IF entries[1].key # <<>> /\ isString(entries[1].value)
    THEN storeNext(ls, entries,
                   secureApiStore(ls, entries[1].key, entries[1].value.v,
                                  colonAt, full),
                   colonAt, full)
  ELSE storeAll(ls, Tail(entries), colonAt, full)

RECURSIVE cacheAll(_, _, _, _)
\* the forEach of migrateCacheData
cacheAll(ls, entries, colonAt, full) ==
  IF entries = <<>> THEN ls
  ELSE cacheAll(IF entries[1].key # <<>>
                  THEN secureCacheSet(ls, entries[1].key, entries[1].value,
                                      colonAt, full)
                  ELSE ls,
                Tail(entries), colonAt, full)

\* one block of migrateLibraryData or migrateOtherData, parsed being
\* JSON.parse of the old item
migrateParsed(ls, key, arrayOnly, parsed, colonAt, full) ==
  IF ls[key] = NoItem THEN ls
  ELSE IF ~parsed.ok THEN removeItem(ls, key)
  ELSE IF \/ parsed.value.t = "array"
          \/ ~arrayOnly /\ parsed.value.t = "object"
    THEN removeItem(secureDataSet(ls, key, parsed.value, colonAt, full), key)
  ELSE ls

\* migrateLibraryData and the three blocks of migrateOtherData
migrateData(ls, key, arrayOnly, colonAt, full) ==
  migrateParsed(ls, key, arrayOnly, parseJSON(ls[key].text), colonAt, full)

\* migrateApiKeys, the keys per library; oldApiKeys is JSON.parse of the
\* old item
migrateOldKeys(ls, oldApiKeys, colonAt, full) ==
  IF ls["bunny_library_api_keys"] = NoItem THEN ls
  ELSE IF ~oldApiKeys.ok THEN removeItem(ls, "bunny_library_api_keys")
  ELSE IF oldApiKeys.value.t \in {"object", "array"}
    THEN removeItem(storeAll(ls, objectEntries(oldApiKeys.value), colonAt, full).ls,
                    "bunny_library_api_keys")
  ELSE ls

\* the item 'bunny_api_key' is the key itself, no JSON
mainKeyOf(ls) ==
  IF ls["bunny_api_key"] = NoItem THEN <<>> ELSE ls["bunny_api_key"].text[1].v

\* migrateApiKeys, the default key out of the old cache; oldCache is
\* JSON.parse of 'app_cache'
cacheDefaultKey(ls, oldCache, colonAt, full) ==
  IF /\ ls["app_cache"] # NoItem
     /\ oldCache.ok
     /\ oldCache.value.t = "object"
     /\ entriesHas(oldCache.value.v, <<"d","e","f","a","u","l","t","_","a","p","i","_","k","e","y">>)
     /\ isString(entriesGet(oldCache.value.v, <<"d","e","f","a","u","l","t","_","a","p","i","_","k","e","y">>))
    THEN secureApiStore(ls, <<"d","e","f","a","u","l","t">>,
                        entriesGet(oldCache.value.v, <<"d","e","f","a","u","l","t","_","a","p","i","_","k","e","y">>).v,
                        colonAt, full).ls
    ELSE ls

\* migrateApiKeys after the keys per library: the main key, stored by
\* storeMain when there is one, and the default key of the old cache; a
\* store that throws ends migrateApiKeys
migrateMainKey(ls, hasMainKey, storeMain, oldCache, colonAt, full) ==
  IF hasMainKey /\ storeMain.threw THEN ls
  ELSE cacheDefaultKey(IF hasMainKey THEN removeItem(storeMain.ls, "bunny_api_key")
                       ELSE ls,
                       oldCache, colonAt, full)

\* migrateApiKeys after the keys per library
migrateDefaultKeys(ls, oldCache, colonAt, full) ==
  migrateMainKey(ls, ls["bunny_api_key"] # NoItem,
                 secureApiStore(ls, <<"d","e","f","a","u","l","t">>, mainKeyOf(ls), colonAt, full),
                 oldCache, colonAt, full)

\* migrateCacheData
migrateCacheData(ls, oldCache, colonAt, full) ==
  IF ls["app_cache"] = NoItem THEN ls
  ELSE IF ~oldCache.ok THEN removeItem(ls, "app_cache")
  ELSE IF oldCache.value.t \in {"object", "array"}
    THEN removeItem(cacheAll(ls, objectEntries(oldCache.value), colonAt, full),
                    "app_cache")
  ELSE ls

\* migrateOtherData
migrateOtherData(ls, colonAt, full) ==
  migrateData(
    migrateData(migrateData(ls, "selectedLibrary", FALSE, colonAt, full),
                "selectedCollection", FALSE, colonAt, full),
    "sheet_configurations", TRUE, colonAt, full)

\* cleanupOldData
cleanupOldData(ls) ==
  [k \in StorageKeys |-> IF k \in LegacyKeys THEN NoItem ELSE ls[k]]

\* the completion mark, unless setItem throws
markCompleted(ls, full) ==
  IF "security_migration_completed" \in full THEN ls
  ELSE [ls EXCEPT !["security_migration_completed"] =
          plain(<<[t |-> "raw", v |-> <<"2","0","2","6">>]>>)]

\* the steps of migrateToSecureStorage in their order; oldApiKeys and
\* oldCache are JSON.parse of the two old items, which no earlier step
\* changes
migrated(ls, oldApiKeys, oldCache, colonAt, full) ==
  markCompleted(
    cleanupOldData(
      migrateOtherData(
        migrateCacheData(
          migrateData(
            migrateDefaultKeys(migrateOldKeys(ls, oldApiKeys, colonAt, full),
                               oldCache, colonAt, full),
            "library_data", FALSE, colonAt, full),
          oldCache, colonAt, full),
        colonAt, full)),
    full)

\* SecurityMigration.migrateToSecureStorage()
MigrateToSecureStorage(colonAt, full) ==
  /\ steps < MaxSteps
  /\ localStorage' =
       IF localStorage["security_migration_completed"] # NoItem
         THEN localStorage
         ELSE migrated(localStorage,
                       parseJSON(localStorage["bunny_library_api_keys"].text),
                       parseJSON(localStorage["app_cache"].text),
                       colonAt, full)
  /\ last' = storeStep("migrate", <<>>, colonAt, full, wasAfterBad)
  /\ steps' = steps + 1
  /\ UNCHANGED << cache, initialized >>
  /\ UNCHANGED << matchCache, userSelectionCache, subjectConflictCache,
                  manualMappings, storedMappings, libraryData, pending, item,
                  learned, applied >>
  /\ UNCHANGED pureVars

NextStore ==
  \/ \E m \in Mishaps : LoadCache(m.colonAt, m.full)
  \/ \E k \in CacheKeys, m \in Mishaps : CacheSet(k, Str(<<"1">>), m.colonAt, m.full)
  \/ \E m \in Mishaps : MigrateToSecureStorage(m.colonAt, m.full)
  \/ \E f \in StoreFilenames, l \in ManualChoices, w \in BOOLEAN :
       LearnFromManualSelection(f, l, w)
  \/ Restart

SpecStore == InitStore /\ [][NextStore]_vars

\* ------------------------------------------------------------------------
\* The matcher after a long run of calls on two files that hold each
\* other's alternate keys
\* ------------------------------------------------------------------------

\* most calls of tryMatchLibrary completed before the run observed begins
MaxRounds == 32

\* an SCI file and an AR file of the same year and teacher, in the order in
\* which the queue processes them
DriftFilenames == << <<"M","2","-","S","C","I","-","P","0","0","7","8","-","J","o","h","n",".","m","p","4">>, <<"M","2","-","A","R","-","P","0","0","7","8","-","J","o","h","n",".","m","p","4">> >>

\* the candidate libraries of that run
DriftLibraries == SubSeq(LibraryPool, 1, Min(4, MaxLibs))

\* the file of the n-th call: the two files take turns
driftFile(n) == DriftFilenames[1 + ((n - 1) % 2)]

\* a new matcher, before any call
freshRun ==
  [ matchCache |-> EmptyMap, subjectConflictCache |-> EmptyMap,
    item |-> blankItem(Undef), last |-> NoStep, applied |-> EmptyMap ]

\* one more completed call of tryMatchLibrary after the run so far, on the
\* file with its row of the score table: what ResumeTryMatch leaves
oneMoreCall(run, file, scoring) ==
  LET r == tryMatchLibrary([ matchCache |-> run.matchCache,
                             userSelectionCache |-> EmptyMap,
                             subjectConflictCache |-> run.subjectConflictCache ],
                           file, scoring, Undef, DriftLibraries)
  IN [ matchCache |-> r.matchCache,
       subjectConflictCache |-> r.subjectConflictCache,
       item |-> r.item,
       last |-> [op |-> "match", path |-> r.path, filename |-> file.filename,
                 year |-> Undef, libraries |-> DriftLibraries],
       applied |-> IF r.item.needsManualSelection THEN run.applied
                   ELSE mapSet(run.applied, file.keys.patternKey,
                               [libraryId |-> r.item.library,
                                libraryName |-> r.item.libraryName,
                                confidence |-> r.item.confidence]) ]

RECURSIVE driftRuns(_, _)
\* the matcher before the first call and after each of n calls, each
\* completed before the next began
driftRuns(runs, n) ==
  IF Len(runs) > n THEN runs
  ELSE driftRuns(Append(runs, oneMoreCall(runs[Len(runs)],
                                          fileOf(driftFile(Len(runs))),
                                          scoringOf(driftFile(Len(runs)),
                                                    DriftLibraries))),
                 n)

\* the matcher after 0, 1, ... MaxRounds calls
DriftRuns == driftRuns(<<freshRun>>, MaxRounds)

\* a session in which up to MaxRounds calls have completed
InitDrift ==
  /\ \E run \in Range(DriftRuns) :
       /\ matchCache = run.matchCache
       /\ subjectConflictCache = run.subjectConflictCache
       /\ item = run.item
       /\ last = run.last
       /\ applied = run.applied
  /\ userSelectionCache = EmptyMap
  /\ storedMappings = NoText
  /\ manualMappings = loadManualMappings(storedMappings)
  /\ libraryData = DriftLibraries
  /\ pending = <<>>
  /\ learned = EmptyMap
  /\ steps = 0
  /\ input = NoInput
  /\ output = NoOutput
  /\ localStorage = EmptyStorage
  /\ cache = initialize(EmptyStorage).cache
  /\ initialized = initialize(EmptyStorage).initialized

NextDrift ==
  \/ \E i \in 1..Len(DriftFilenames) : CallTryMatch(DriftFilenames[i], Undef)
  \/ ResumeTryMatch
  \/ \E i \in 1..Len(DriftFilenames), w \in BOOLEAN :
       LearnFromManualSelection(DriftFilenames[i], LibraryPool[2], w)
  \/ \E l \in {<<>>, DriftLibraries} : SaveLibraryData(l)
  \/ Restart

SpecDrift == InitDrift /\ [][NextDrift]_vars

\* ------------------------------------------------------------------------
\* The matcher on items of the two tracks
\* ------------------------------------------------------------------------

InitTrack ==
  /\ matchCache = EmptyMap
  /\ userSelectionCache = EmptyMap
  /\ subjectConflictCache = EmptyMap
  /\ storedMappings \in {NoText, CorruptText}
  /\ manualMappings = loadManualMappings(storedMappings)
  /\ libraryData \in TrackLibraryLists
  /\ pending = <<>>
  /\ item = blankItem(Undef)
  /\ last = NoStep
  /\ learned = EmptyMap
  /\ applied = EmptyMap
  /\ steps = 0
  /\ input = NoInput
  /\ output = NoOutput
  /\ localStorage = EmptyStorage
  /\ cache = initialize(EmptyStorage).cache
  /\ initialized = initialize(EmptyStorage).initialized

NextTrack ==
  \/ \E f \in TrackFilenames, y \in ItemYears : CallTryMatch(f, y)
  \/ ResumeTryMatch
  \/ \E f \in TrackFilenames, l \in ManualChoices, w \in BOOLEAN :
       LearnFromManualSelection(f, l, w)
  \/ \E l \in TrackLibraryLists : SaveLibraryData(l)
  \/ Restart

SpecTrack == InitTrack /\ [][NextTrack]_vars

\* ------------------------------------------------------------------------
\* Properties of the pure functions (checked under SpecPure)
\* ------------------------------------------------------------------------

collected == output.fn = "determineCollection"

scored == output.fn = "findMatchingLibrary"

\* the collection name the decision table gives for a term
tableName(parsed, year, term) ==
  IF parsed.academicYear = <<"E","r","r","o","r">> THEN <<"P","a","r","s","i","n","g","E","r","r","o","r","-">> \o year
  ELSE IF isRevisionFile(parsed) /\ isQuestion(parsed)
    THEN <<"R","E","-">> \o term \o <<"-">> \o year \o <<"-","Q","V">>
  ELSE IF isRevisionFile(parsed) THEN <<"R","E","-">> \o year
  ELSE IF isQuestion(parsed) THEN term \o <<"-">> \o year \o <<"-","Q","V">>
  ELSE term \o <<"-">> \o year

\* positions of the original filename where a whole word T1 or T2 stands
termWordPositions(parsed) ==
  LET f == filenameOf(parsed)
  IN { i \in 1..Len(f) :
         \E d \in {"1", "2"} :
           /\ OccursAtCI(f, <<"T", d>>, i)
           /\ WordBoundary(f, i) /\ WordBoundary(f, i + 2) }

\* the original filename or the brace text names term d in words
namesTermInWords(parsed, d, arOrdinal) ==
  LET f == filenameOf(parsed)
  IN \/ containsSpacedWordCI(f, <<"t","e","r","m">>, <<d>>)
     \/ containsSpacedWordCI(f, arTheChapter, arOrdinal)
     \/ containsSpacedWordCI(f, arTheTerm, arOrdinal)

\* the term a record without a parsed term gets from its original filename
\* and brace text, or Undef when they name none
termOfFilename(parsed) ==
  LET f == filenameOf(parsed)
      ps == termWordPositions(parsed)
      first == CHOOSE i \in ps : \A j \in ps : i <= j
      braces(arOrdinal) ==
        /\ Truthy(parsed.arabicText)
        /\ \/ includes(parsed.arabicText, arTheChapter \o <<" ">> \o arOrdinal)
           \/ includes(parsed.arabicText, arTheTerm \o <<" ">> \o arOrdinal)
  IN IF ps # {} THEN <<"T", f[first + 1]>>
     ELSE IF namesTermInWords(parsed, "1", arTheFirst) THEN <<"T","1">>
     ELSE IF namesTermInWords(parsed, "2", arTheSecond) THEN <<"T","2">>
     ELSE IF braces(arTheFirst) THEN <<"T","1">>
     ELSE IF braces(arTheSecond) THEN <<"T","2">>
     ELSE Undef

\* C5 as claimed: determineCollection returns the name of the decision
\* table, with the parsed term and with T1 whenever no term was parsed
C5_AsClaimed ==
  collected =>
    output.collection.name =
      tableName(output.parsed, input.year,
                IF Truthy(output.parsed.term) THEN output.parsed.term ELSE <<"T","1">>)

\* C5: determineCollection returns the name of the decision table
\* with the parsed term; when no term was parsed, with the term the
\* original filename or brace text names, and with T1 when they name none
C5_CollectionName ==
  collected =>
    output.collection.name =
      tableName(output.parsed, input.year,
                IF Truthy(output.parsed.term) THEN output.parsed.term
                ELSE IF termOfFilename(output.parsed) # Undef
                  THEN termOfFilename(output.parsed)
                ELSE <<"T","1">>)

\* a record without a parsed term whose filename names the second term has
\* been routed
C5_Witness ==
  /\ collected
  /\ ~Truthy(output.parsed.term)
  /\ termOfFilename(output.parsed) = <<"T","2">>
  /\ output.parsed.academicYear # <<"E","r","r","o","r">>

\* indices of the candidates that qualify for the result
qualifying == { i \in 1..Len(input.libraries) : output.scores[i] > rejectScore }

\* candidate i stands before candidate j in the ranking
rankedBefore(i, j) ==
  \/ output.scores[i] > output.scores[j]
  \/ output.scores[i] = output.scores[j] /\ i < j

\* rank of a qualifying candidate: 1 for the best
rankOf(i) == 1 + Cardinality({ j \in qualifying : rankedBefore(j, i) })

\* C6: every candidate score lies in [-30, 200]; no candidate scoring -20
\* or lower is the winner or an alternative; the confidence is 0 or
\* greater than -20
C6_ClampAndReject ==
  scored =>
    /\ \A i \in 1..Len(input.libraries) :
         /\ output.scores[i] >= 0 - 30 /\ output.scores[i] <= 200
         /\ output.scores[i] <= 0 - 20 =>
              /\ output.match.library # input.libraries[i]
              /\ \A k \in 1..Len(output.match.alternatives) :
                   output.match.alternatives[k] # input.libraries[i]
    /\ (output.match.confidence = 0 \/ output.match.confidence > 0 - 20)

\* a candidate was pushed to the clamp floor and rejected while another
\* candidate won
C6_Witness ==
  /\ scored
  /\ \E i \in 1..Len(input.libraries) :
       /\ rawScore(output.parsed, input.libraries[i]) < 0 - 30
       /\ output.scores[i] = 0 - 30
  /\ output.match.library # NullLibrary

\* C7: library, confidence and alternatives are the prefix of one ranking of
\* the qualifying candidates, by descending score, ties in candidate order
C7_Ranking ==
  scored =>
    LET alt == output.match.alternatives
    IN /\ Len(alt) = Min(5, Cardinality(qualifying))
       /\ \A k \in 1..Len(alt) :
            \E i \in qualifying : rankOf(i) = k /\ alt[k] = input.libraries[i]
       /\ IF qualifying = {}
            THEN output.match.library = NullLibrary /\ output.match.confidence = 0
            ELSE /\ output.match.library = alt[1]
                 /\ \E i \in qualifying :
                      /\ rankOf(i) = 1
                      /\ output.match.confidence = output.scores[i]

\* more than five candidates qualified and two of the alternatives tie
C7_Witness ==
  /\ scored
  /\ Cardinality(qualifying) > 5
  /\ \E i, j \in qualifying :
       /\ i < j
       /\ output.scores[i] = output.scores[j]
       /\ rankOf(j) <= 5

\* two candidates get the same points from every rule but the named one
sameButTeacherCode(parsed, a, b) ==
  /\ academicYearScore(parsed, a) = academicYearScore(parsed, b)
  /\ mathTypeScore(parsed, a) = mathTypeScore(parsed, b)
  /\ branchScore(parsed, a) = branchScore(parsed, b)
  /\ teacherNameScore(parsed, a) = teacherNameScore(parsed, b)

sameButMathType(parsed, a, b) ==
  /\ teacherCodeScore(parsed, a) = teacherCodeScore(parsed, b)
  /\ academicYearScore(parsed, a) = academicYearScore(parsed, b)
  /\ branchScore(parsed, a) = branchScore(parsed, b)
  /\ teacherNameScore(parsed, a) = teacherNameScore(parsed, b)

\* candidates i and j differ in nothing but that i carries the teacher code
codePair(i, j) ==
  /\ Truthy(output.parsed.teacherCode)
  /\ includes(input.libraries[i].name, output.parsed.teacherCode)
  /\ ~includes(input.libraries[j].name, output.parsed.teacherCode)
  /\ sameButTeacherCode(output.parsed, input.libraries[i], input.libraries[j])

\* C8 as claimed: the candidate with the teacher code scores exactly 40
\* more than the otherwise identical candidate without it
C8_AsClaimed ==
  scored =>
    \A i, j \in 1..Len(input.libraries) :
      codePair(i, j) => output.scores[i] = output.scores[j] + 40

\* C8: the candidate with the teacher code scores strictly more,
\* and exactly 40 more unless the candidate without it lies below the
\* floor of -30 before clamping
C8_TeacherCodeBonus ==
  scored =>
    \A i, j \in 1..Len(input.libraries) :
      codePair(i, j) =>
        /\ output.scores[i] > output.scores[j]
        /\ rawScore(output.parsed, input.libraries[j]) >= 0 - 30
             => output.scores[i] = output.scores[j] + 40

\* a pair of such candidates was scored and neither score was clamped
C8_Witness ==
  /\ scored
  /\ \E i, j \in 1..Len(input.libraries) :
       /\ codePair(i, j)
       /\ rawScore(output.parsed, input.libraries[j]) >= 0 - 30
       /\ output.scores[i] = output.scores[j] + 40

\* the name carries keyword own and not keyword other
onlyKeyword(library, own, other) ==
  /\ includes(toUpperCase(library.name), own)
  /\ ~includes(toUpperCase(library.name), other)

otherTrack(mathType) == IF mathType = <<"P","U","R","E">> THEN <<"A","P","P","L","I","E","D">> ELSE <<"P","U","R","E">>

\* candidate i carries only the opposite track keyword, candidate j only the
\* parsed one, and they differ in nothing else
trackPair(i, j) ==
  /\ output.parsed.mathType \in { <<"P","U","R","E">>, <<"A","P","P","L","I","E","D">> }
  /\ onlyKeyword(input.libraries[i], otherTrack(output.parsed.mathType),
                 output.parsed.mathType)
  /\ onlyKeyword(input.libraries[j], output.parsed.mathType,
                 otherTrack(output.parsed.mathType))
  /\ sameButMathType(output.parsed, input.libraries[i], input.libraries[j])

\* C9: the candidate with only the opposite track keyword scores strictly
\* lower than the otherwise identical candidate with only the parsed one
C9_TrackPenalty ==
  scored =>
    \A i, j \in 1..Len(input.libraries) :
      trackPair(i, j) => output.scores[i] < output.scores[j]

\* such a pair was scored for a PURE record
C9_Witness ==
  /\ scored
  /\ output.parsed.mathType = <<"P","U","R","E">>
  /\ \E i, j \in 1..Len(input.libraries) : trackPair(i, j)

\* ------------------------------------------------------------------------
\* Properties of the matcher (specification Spec)
\* ------------------------------------------------------------------------

\* this step completes the oldest suspended call of tryMatchLibrary
Resumed == pending # <<>> /\ pending' = Tail(pending) /\ last'.op = "match"

\* the call a Resumed step completes, and what is derived from its item
resumedCall == Head(pending)

resumedFile == fileOf(resumedCall.filename)

resumedKey == resumedFile.keys.patternKey

\* the result findMatchingLibrary gives the completed call
winner == scoringOf(resumedCall.filename, resumedCall.libraries).bestMatch

\* the item is left with this library at this confidence
itemApplied(it, libraryId, libraryName, confidence) ==
  /\ it.library = libraryId
  /\ it.libraryName = libraryName
  /\ it.confidence = confidence
  /\ ~it.needsManualSelection

\* the winner of the scorer for the call that completed last
lastWinner == scoringOf(last.filename, last.libraries).bestMatch

\* C1 as claimed: once learnFromManualSelection has recorded a library for
\* a filename, every later tryMatchLibrary on that filename gives the item
\* that library with confidence 100 and no manual selection
C1_AsClaimed ==
  [][ Resumed /\ mapHas(learned, resumedCall.filename)
        => itemApplied(item', learned[resumedCall.filename].libraryId,
                       learned[resumedCall.filename].libraryName, 100) ]_vars

\* C1: a tryMatchLibrary that is given a non-empty library list, by the
\* matcher that learnFromManualSelection taught the filename, gives the
\* item the library chosen last for the filename, with confidence 100 and
\* no manual selection, whatever the scorer and the pattern cache say
C1_UserSelectionFirst ==
  [][ ( /\ Resumed
        /\ resumedCall.libraries # <<>>
        /\ mapHas(learned, resumedCall.filename)
        /\ learned[resumedCall.filename].thisMatcher )
        => itemApplied(item', learned[resumedCall.filename].libraryId,
                       learned[resumedCall.filename].libraryName, 100) ]_vars

\* a call returned the library chosen by hand where the scorer's winner
\* was another library and the pattern cache had an entry for the item
C1_Witness ==
  /\ last.op = "match"
  /\ last.libraries # <<>>
  /\ mapHas(learned, last.filename)
  /\ learned[last.filename].thisMatcher
  /\ itemApplied(item, learned[last.filename].libraryId,
                 learned[last.filename].libraryName, 100)
  /\ lastWinner.library.id # item.library
  /\ lastWinner.confidence # 100

\* C2 as claimed: once tryMatchLibrary has applied a match to an item of a
\* pattern key, every item of that key processed afterwards that has no
\* user selection gets that library with that confidence
C2_AsClaimed ==
  [][ ( /\ Resumed
        /\ mapHas(applied, resumedKey)
        /\ ~mapHas(userSelectionCache, resumedCall.filename) )
        => itemApplied(item', applied[resumedKey].libraryId,
                       applied[resumedKey].libraryName,
                       applied[resumedKey].confidence) ]_vars

\* C2: an item with a non-empty library list, no user selection and an
\* entry under its pattern key in the pattern cache gets the library and
\* the confidence of that entry as the cache holds it when the call
\* resumes; and a call that applies a match leaves that match under the
\* pattern key of its item
C2_PatternCacheHit ==
  [][ Resumed =>
        /\ ( /\ resumedCall.libraries # <<>>
             /\ ~mapHas(userSelectionCache, resumedCall.filename)
             /\ mapHas(matchCache, resumedKey) )
             => itemApplied(item', matchCache[resumedKey].libraryId,
                            matchCache[resumedKey].libraryName,
                            matchCache[resumedKey].confidence)
        /\ ~item'.needsManualSelection
             => /\ mapHas(matchCache', resumedKey)
                /\ matchCache'[resumedKey] =
                     [libraryId |-> item'.library,
                      libraryName |-> item'.libraryName,
                      confidence |-> item'.confidence] ]_vars

\* a call took its library from the pattern cache where the scorer's
\* winner was another library
C2_Witness ==
  /\ last.op = "match"
  /\ last.path = "pattern"
  /\ ~item.needsManualSelection
  /\ mapHas(matchCache, fileOf(last.filename).keys.patternKey)
  /\ matchCache[fileOf(last.filename).keys.patternKey].libraryId = item.library
  /\ lastWinner.library.id # item.library

\* the completed call is on the scorer path: it was given libraries, its
\* filename has no user selection and its pattern key no cache entry
onScorerPath ==
  /\ Resumed
  /\ resumedCall.libraries # <<>>
  /\ ~mapHas(userSelectionCache, resumedCall.filename)
  /\ ~mapHas(matchCache, resumedKey)

\* the parsed teacher code occurs verbatim in the name of the best library
teacherCodeInName(parsed, bestMatch) ==
  /\ Truthy(parsed.teacherCode)
  /\ includes(bestMatch.library.name, parsed.teacherCode)

\* one of the three auto-apply conditions the claims name holds
namedCondition(parsed, bestMatch) ==
  \/ bestMatch.confidence >= 75
  \/ teacherCodeInName(parsed, bestMatch)
  \/ /\ Truthy(parsed.mathType)
     /\ bestMatch.confidence >= 70
     /\ includes(toUpperCase(bestMatch.library.name), parsed.mathType)

\* C3: on the scorer path, a winner that is not null and meets one of the
\* three conditions (confidence >= 75; teacher code in its name; track
\* parsed, confidence >= 70 and the track keyword in its name) is applied
\* to the item with the winner's score and no manual selection
C3_AutoApply ==
  [][ ( /\ onScorerPath
        /\ winner.library # NullLibrary
        /\ namedCondition(resumedFile.parsed, winner) )
        => itemApplied(item', winner.library.id, winner.library.name,
                       winner.confidence) ]_vars

\* a call on the scorer path applied a winner whose only ground is a
\* confidence of exactly 75
C3_Witness ==
  /\ last.op = "match"
  /\ last.path = "auto"
  /\ lastWinner.confidence = 75
  /\ ~teacherCodeInName(fileOf(last.filename).parsed, lastWinner)
  /\ ~Truthy(fileOf(last.filename).parsed.mathType)
  /\ itemApplied(item, lastWinner.library.id, lastWinner.library.name, 75)

\* the item is flagged for manual selection with what the scorer found
flagged(it, bestMatch) ==
  /\ it.needsManualSelection
  /\ it.library = ""
  /\ it.libraryName = <<>>
  /\ it.confidence = bestMatch.confidence
  /\ bestMatch.library = NullLibrary => it.confidence = 0
  /\ Len(it.suggestedLibraries) <= 5

\* C4: on the scorer path, when the winner is null, or none of the three
\* conditions and no special rule holds, or the confidence is below 55
\* and the teacher code is not in the winner's name, the item is flagged
\* for manual selection: no library id and name, the confidence of the
\* top score or 0, at most 5 suggested libraries
C4_ManualSelection ==
  [][ ( /\ onScorerPath
        /\ \/ winner.library = NullLibrary
           \/ /\ ~namedCondition(resumedFile.parsed, winner)
              /\ ~checkSpecialMatchRules(resumedFile.parsed, winner)
           \/ /\ winner.confidence < 55
              /\ ~teacherCodeInName(resumedFile.parsed, winner) )
        => flagged(item', winner) ]_vars

\* a call on the scorer path flagged its item where the winner scored
\* below 55 and six libraries were worth suggesting
C4_Witness ==
  /\ last.op = "match"
  /\ last.path = "manual"
  /\ lastWinner.library # NullLibrary
  /\ lastWinner.confidence < 55
  /\ Len(last.libraries) > 5
  /\ flagged(item, lastWinner)
  /\ Len(item.suggestedLibraries) = 5

\* C10 as claimed: after learnFromManualSelection and a restart, a
\* tryMatchLibrary for a filename whose keyword key the reloaded learning
\* store maps gets the library id of that mapping
C10_AsClaimed ==
  [][ ( /\ Resumed
        /\ resumedCall.libraries # <<>>
        /\ mapHas(learned, resumedCall.filename)
        /\ ~learned[resumedCall.filename].thisMatcher
        /\ entriesHas(manualMappings, resumedFile.keys.keywordKey) )
        => item'.library =
             entriesGet(manualMappings, resumedFile.keys.keywordKey).libraryId ]_vars

\* ------------------------------------------------------------------------
\* Properties of the caches and the learning store (specification SpecEdge)
\* ------------------------------------------------------------------------

\* this step is a call of learnFromManualSelection
Learns == last'.op = "learn"

\* the keyword key of the filename the step teaches, and the library
learntKey == fileOf(last'.filename).keys.keywordKey

learntValue == [libraryId |-> last'.libraries[1].id,
                libraryName |-> last'.libraries[1].name]

\* the learned-mapping table the stored text denotes (none: the empty one)
persisted(text) == loadManualMappings(text)

\* the first n entries of t are the entries of s
isPrefix(s, t) == Len(s) <= Len(t) /\ SubSeq(t, 1, Len(s)) = s

\* C11 as claimed: a learn call for a key the learning store already maps
\* leaves the mapping as it was, and after every learn call the persisted
\* table equals the table in memory
C11_AsClaimed ==
  [][ Learns =>
        /\ entriesHas(manualMappings, learntKey)
             => entriesGet(manualMappings', learntKey)
                  = entriesGet(manualMappings, learntKey)
        /\ persisted(storedMappings') = manualMappings' ]_vars

\* C11: a learn call for a key the learning store already maps changes
\* neither the table in memory nor the stored text; a learn call for a new
\* key appends the mapping in memory and writes the whole table, after
\* which the persisted table equals the table in memory unless the write
\* failed, and then the stored text is as it was; the persisted table is
\* always the table in memory or an older beginning of it
C11_FirstWriteWins ==
  [][ /\ Learns =>
           IF entriesHas(manualMappings, learntKey) \/ learntKey = <<>>
             THEN manualMappings' = manualMappings /\ storedMappings' = storedMappings
             ELSE /\ manualMappings' =
                       Append(manualMappings, [key |-> learntKey, value |-> learntValue])
                  /\ \/ storedMappings' = JSONstringify(manualMappings')
                     \/ storedMappings' = storedMappings
                  /\ storedMappings' # storedMappings
                       => persisted(storedMappings') = manualMappings'
      /\ isPrefix(persisted(storedMappings'), manualMappings') ]_vars

\* two filenames of one keyword key were taught different libraries, and
\* the learning store, in memory and as persisted, maps the key to the
\* library taught first
C11_Witness ==
  /\ last.op = "learn"
  /\ \E f \in DOMAIN learned :
       /\ f # last.filename
       /\ fileOf(f).keys.keywordKey = fileOf(last.filename).keys.keywordKey
       /\ learned[f].libraryId # last.libraries[1].id
       /\ entriesGet(manualMappings, fileOf(f).keys.keywordKey).libraryId
            = learned[f].libraryId
  /\ persisted(storedMappings) = manualMappings
  /\ manualMappings # <<>>

\* the keys of the learning store
storeKeys(entries) == { entries[i].key : i \in 1..Len(entries) }

\* this step is a call of tryMatchLibrary, its completion, or a call of
\* learnFromManualSelection
CacheCalls == last'.op \in {"call", "match", "learn"}

\* the pattern-cache keys the step writes for the filename it works on
writtenKeys ==
  LET keys == fileOf(last'.filename).keys
  IN {keys.patternKey, keys.enhancedKey} \cup Range(keys.alternateKeys)

\* C12: no call of tryMatchLibrary or learnFromManualSelection removes a
\* key from the pattern cache, the user-selection cache, the conflict
\* cache or the learning store; the value under a pattern-cache key
\* changes only when the call writes that key for its own filename, and
\* the value under a user-selection key only when a manual selection for
\* that filename replaces it
C12_NoEviction ==
  [][ CacheCalls =>
        /\ DOMAIN matchCache \subseteq DOMAIN matchCache'
        /\ DOMAIN userSelectionCache \subseteq DOMAIN userSelectionCache'
        /\ DOMAIN subjectConflictCache \subseteq DOMAIN subjectConflictCache'
        /\ storeKeys(manualMappings) \subseteq storeKeys(manualMappings')
        /\ \A k \in DOMAIN matchCache :
             matchCache'[k] # matchCache[k] => k \in writtenKeys
        /\ \A k \in DOMAIN userSelectionCache :
             userSelectionCache'[k] # userSelectionCache[k]
               => /\ Learns
                  /\ k = last'.filename
                  /\ userSelectionCache'[k] = learntValue ]_vars

\* a manual selection replaced the value an applied match had left under
\* a pattern key, and the cache still holds the other keys of that match
C12_Witness ==
  /\ last.op = "learn"
  /\ mapHas(applied, fileOf(last.filename).keys.patternKey)
  /\ matchCache[fileOf(last.filename).keys.patternKey].libraryId
       # applied[fileOf(last.filename).keys.patternKey].libraryId
  /\ Cardinality(DOMAIN matchCache) >= 3
  /\ userSelectionCache # EmptyMap

\* C13 as claimed: a call that is given no candidate library ends in an
\* error raised to its caller and not in the manual-selection outcome, so
\* the item is not flagged for manual selection
C13_AsClaimed ==
  [][ (Resumed /\ resumedCall.libraries = <<>>) => ~item'.needsManualSelection ]_vars

unparsed(parsed) ==
  /\ parsed.academicYear \in {<<"U","n","k","n","o","w","n">>, <<"E","r","r","o","r">>}
  /\ ~Truthy(parsed.mathType)
  /\ ~Truthy(parsed.branch)
  /\ ~Truthy(parsed.teacherCode)
  /\ ~Truthy(parsed.teacherName)

\* C15 as claimed: an item whose filename cannot be parsed, and for which
\* no library was ever chosen by hand, is left flagged for manual
\* selection by tryMatchLibrary whatever was matched and chosen before
\* for other items
C15_AsClaimed ==
  [][ ( /\ Resumed
        /\ unparsed(resumedFile.parsed)
        /\ ~mapHas(learned, resumedCall.filename) )
        => item'.needsManualSelection ]_vars

\* the winner's name starts with the parsed academic year and holds one
\* of the two subject segments
namesYearAndSubject(parsed, bestMatch) ==
  /\ startsWith(bestMatch.library.name, parsed.academicYear)
  /\ \/ includes(toLowerCase(bestMatch.library.name), <<"-","s","c","i","-">>)
     \/ includes(toLowerCase(bestMatch.library.name), <<"-","a","r","-">>)

\* C16 as claimed: on the scorer path, when none of the three primary
\* conditions holds, the filename shows the SCI/AR pattern, the winner's
\* confidence is at least 55 and its name starts with the parsed academic
\* year and holds '-sci-' or '-ar-', the winner is applied to the item
C16_AsClaimed ==
  [][ ( /\ onScorerPath
        /\ winner.library # NullLibrary
        /\ ~namedCondition(resumedFile.parsed, winner)
        /\ hasSciArPattern(resumedCall.filename)
        /\ winner.confidence >= 55
        /\ namesYearAndSubject(resumedFile.parsed, winner) )
        => itemApplied(item', winner.library.id, winner.library.name,
                       winner.confidence) ]_vars

\* C20 as claimed: a completed call for an item whose parsed record has
\* no branch conflict leaves the conflict cache as it was
C20_AsClaimed ==
  [][ (Resumed /\ ~resumedFile.parsed.hasBranchConflict)
        => subjectConflictCache' = subjectConflictCache ]_vars

\* ------------------------------------------------------------------------
\* Properties of parseFilename and determineCollection on phrases, subject
\* pairs and words outside braces (specification SpecPure)
\* ------------------------------------------------------------------------

\* s ends with w
endsWith(s, w) == Len(s) >= Len(w) /\ SubSeq(s, Len(s) - Len(w) + 1, Len(s)) = w

\* 'quiz' stands in the filename only inside a phrase, after another word
\* and white space, and the filename has no other question indicator
quizInPhraseOnly(filename) ==
  /\ containsWordCI(filename, <<"q","u","i","z">>)
  /\ hasQuizPhrase(filename)
  /\ ~containsWordCI(filename, <<"t","e","s","t">>)
  /\ ~containsWordCI(filename, <<"e","x","a","m">>)
  /\ ~hasQNumber(filename)
  /\ ~Truthy(arabicTextOf(filename))

\* C17 as claimed: a filename with 'quiz' only inside a phrase is not
\* given the type QV by parseFilename and is not routed to a collection
\* whose name ends with -QV
C17_AsClaimed ==
  (collected /\ quizInPhraseOnly(input.filename))
    => /\ output.parsed.type # "QV"
       /\ ~endsWith(output.collection.name, <<"-","Q","V">>)

\* the tokens parseFilename splits the filename into
tokensOf(filename) == partsOf(filename)

\* the positions of the tokens that spell a subject code, in any case
tokenPositions(filename, code) ==
  { i \in 1..Len(tokensOf(filename)) : EqualsCI(tokensOf(filename)[i], code) }

\* the code out of SCI and AR whose first token comes first, and the other
firstOfPair(filename) ==
  LET firstAt(code) == CHOOSE i \in tokenPositions(filename, code) :
                         \A j \in tokenPositions(filename, code) : i <= j
  IN IF firstAt(<<"S","C","I">>) < firstAt(<<"A","R">>)
       THEN <<<<"S","C","I">>, <<"A","R">>>> ELSE <<<<"A","R">>, <<"S","C","I">>>>

\* C18 as claimed: for a filename whose tokens include SCI and AR, in any
\* case and order, parseFilename sets hasBranchConflict and gives branch
\* and secondaryBranch the two codes in token order
C18_AsClaimed ==
  ( /\ output.fn # "none"
    /\ Truthy(input.filename)
    /\ tokenPositions(input.filename, <<"S","C","I">>) # {}
    /\ tokenPositions(input.filename, <<"A","R">>) # {} )
    => /\ output.parsed.hasBranchConflict
       /\ output.parsed.branch = firstOfPair(input.filename)[1]
       /\ output.parsed.secondaryBranch = firstOfPair(input.filename)[2]

\* the filename has a revision marker and the question word followed by a
\* number, and no other question indicator
revisionWithQuestionWord(filename) ==
  /\ containsWordCI(filename, <<"R","E">>)
  /\ \E i \in 1..Len(filename) :
       /\ OccursAt(filename, arQuestion, i)
       /\ \E j \in (i + Len(arQuestion))..Len(filename) : IsDigit(filename[j])
  /\ ~hasQNumber(filename)
  /\ ~containsWordCI(filename, <<"q","u","i","z">>)
  /\ ~containsWordCI(filename, <<"t","e","s","t">>)

\* C19 as claimed: for a filename with a revision marker whose only
\* question indicator is the question word followed by a number,
\* determineCollection with year 2026 returns RE-T1-2026-QV
C19_AsClaimed ==
  ( /\ collected
    /\ input.year = <<"2","0","2","6">>
    /\ revisionWithQuestionWord(input.filename) )
    => output.collection.name = <<"R","E","-","T","1","-","2","0","2","6","-","Q","V">>

\* ------------------------------------------------------------------------
\* Properties of the cache manager and the migration (specification
\* SpecStore)
\* ------------------------------------------------------------------------

\* the stored learning table is missing or is no JSON
badMappings(text) == text = NoText \/ ~JSONparse(text).ok

\* the object the stored cache item denotes
persistedCache(ls) == secureCacheGetAll(ls).value

\* C21: a page load that finds the stored cache item missing, undecodable
\* or no JSON leaves the cache manager initialized with an empty map, and
\* one that finds the learning table in that state leaves the matcher with
\* an empty table; loadCache on such an item leaves the map empty; after
\* that the operations work: cache.set makes cache.get return the value and
\* keeps the other entries, and when the write goes through and no cipher
\* is cut, the stored item denotes the map; a learn call on the empty table
\* adds its mapping
C21_LoadingRecovers ==
  [][ /\ (last'.op = "restart" /\ badBlob(localStorage))
           => cache' = <<>> /\ initialized'
      /\ (last'.op = "restart" /\ badMappings(storedMappings))
           => manualMappings' = <<>>
      /\ (last'.op = "loadCache" /\ badBlob(localStorage))
           => cache' = <<>> /\ initialized' /\ persistedCache(localStorage').v = <<>>
      /\ (last'.op = "cacheSet")
           => /\ entriesHas(cache', last'.key)
              /\ entriesGet(cache', last'.key) = Str(<<"1">>)
              /\ \A i \in 1..Len(cache) :
                   cache[i].key # last'.key
                     => entriesGet(cache', cache[i].key) = cache[i].value
              /\ ( /\ badBlob(localStorage)
                   /\ last'.colonAt = 0
                   /\ "secure_cache" \notin last'.full )
                   => persistedCache(localStorage') = object(cache')
      /\ (Learns /\ manualMappings = <<>> /\ learntKey # <<>>)
           => manualMappings' = <<[key |-> learntKey, value |-> learntValue]>>
    ]_vars

\* the page was loaded on a learning table that is no JSON, loadCache has
\* found the stored cache item missing, undecodable or no JSON, and
\* cache.set then stored a value that cache.get returns and the stored item
\* holds
C21_Witness ==
  /\ last.op = "cacheSet"
  /\ last.afterBad
  /\ initialized
  /\ cache = <<[key |-> last.key, value |-> Str(<<"1">>)]>>
  /\ persistedCache(localStorage) = object(cache)
  /\ manualMappings = <<>>
  /\ storedMappings = CorruptText

\* the values the legacy items of a storage hold, and whether the secure
\* storage of another returns each of them
legacyRetrievable(before, after) ==
  LET apiKeys == parseJSON(before["bunny_library_api_keys"].text)
      appCache == parseJSON(before["app_cache"].text)
      dataKept(key) ==
        before[key] # NoItem
          => /\ secureDataGet(after, key).t # "null"
             /\ parseJSON(before[key].text).ok
                  => secureDataGet(after, key) = parseJSON(before[key].text).value
  IN /\ (before["bunny_library_api_keys"] # NoItem /\ apiKeys.ok
           /\ apiKeys.value.t = "object")
          => \A i \in 1..Len(apiKeys.value.v) :
               secureApiRetrieve(after, apiKeys.value.v[i].key)
                 = Str(apiKeys.value.v[i].value.v)
     /\ before["bunny_api_key"] # NoItem
          => secureApiRetrieve(after, <<"d","e","f","a","u","l","t">>)
               = Str(before["bunny_api_key"].text[1].v)
     /\ (before["app_cache"] # NoItem /\ appCache.ok /\ appCache.value.t = "object")
          => \A i \in 1..Len(appCache.value.v) :
               /\ persistedCache(after).t = "object"
               /\ entriesHas(persistedCache(after).v, appCache.value.v[i].key)
               /\ entriesGet(persistedCache(after).v, appCache.value.v[i].key)
                    = appCache.value.v[i].value
     /\ dataKept("library_data")
     /\ dataKept("selectedLibrary")
     /\ dataKept("selectedCollection")
     /\ dataKept("sheet_configurations")

\* this step is a migration that sets its completion flag
Migrates ==
  /\ last'.op = "migrate"
  /\ localStorage["security_migration_completed"] = NoItem
  /\ localStorage'["security_migration_completed"] # NoItem

\* C22 as claimed: once the migration has set its completion flag, every
\* value that a legacy key held before the run is retrievable from the
\* secure storage, also when a secure write or a parse failed
C22_AsClaimed ==
  [][ Migrates => legacyRetrievable(localStorage, localStorage') ]_vars

\* ------------------------------------------------------------------------
\* Properties of parseFilename on track tokens, teacher names and teacher
\* codes (specification SpecPure)
\* ------------------------------------------------------------------------

\* the positions of the track tokens of a filename
trackPositions(filename) ==
  { i \in 1..Len(tokensOf(filename)) : isMathType(tokensOf(filename)[i]) }

\* C23 as claimed: for a filename with more than one track token, the
\* track type parseFilename returns is the first of them in token order
C23_AsClaimed ==
  ( /\ output.fn # "none"
    /\ Truthy(input.filename)
    /\ Cardinality(trackPositions(input.filename)) > 1 )
    => \E i \in trackPositions(input.filename) :
         /\ \A j \in trackPositions(input.filename) : i <= j
         /\ output.parsed.mathType = toUpperCase(tokensOf(input.filename)[i])

\* the three strategies of the teacher-name chain, each giving the tokens
\* it finds, and the first of them that finds any
nameChain(parts) ==
  LET codes == IndicesWhere(parts, LAMBDA p : teacherCodeDigits(p) # Undef)
      years == IndicesWhere(parts, isYearLevel)
      branches == IndicesWhere(parts, isBranch)
      after(i) == SelectSeq(SubSeq(parts, i + 1, Len(parts)),
                            LAMBDA p : ~isMetadataPart(p))
      nameLike == IndicesWhere(parts,
                    LAMBDA p : /\ ~isMetadataOrCodePart(p)
                               /\ \E k \in 1..Len(p) : IsLetter(p[k]))
      afterCode == IF codes # <<>> THEN after(codes[Len(codes)]) ELSE <<>>
      afterBranch == IF years # <<>> /\ branches # <<>>
                       THEN after(branches[Len(branches)]) ELSE <<>>
      lastNameLike == IF nameLike # <<>>
                        THEN <<parts[nameLike[Len(nameLike)]]>> ELSE <<>>
  IN IF afterCode # <<>> THEN afterCode
     ELSE IF afterBranch # <<>> THEN afterBranch
     ELSE lastNameLike

\* C24 as claimed: the teacher name is what the first strategy that finds
\* tokens finds, so a teacher code with no name token after it leaves the
\* name to the second or third strategy
C24_AsClaimed ==
  ( /\ output.fn # "none"
    /\ Truthy(input.filename) )
    => output.parsed.teacherName =
         IF nameChain(tokensOf(input.filename)) = <<>> THEN Undef
         ELSE trim(squeezeSpaces(join(nameChain(tokensOf(input.filename)), <<" ">>)))

\* the positions at which the filename has the prefix P, a dash and four
\* digits up to the next dash: the token P followed by a token of four
\* digits
separatedCodes(filename) ==
  { i \in 1..(Len(tokensOf(filename)) - 1) :
      /\ EqualsCI(tokensOf(filename)[i], <<"P">>)
      /\ Len(tokensOf(filename)[i + 1]) = 4
      /\ \A k \in 1..4 : IsDigit(tokensOf(filename)[i + 1][k]) }

\* C25 as claimed: a teacher code written with a dash between the prefix
\* and the four digits is returned as P followed by the digits
C25_AsClaimed ==
  ( /\ output.fn # "none"
    /\ Truthy(input.filename)
    /\ separatedCodes(input.filename) # {} )
    => \E i \in separatedCodes(input.filename) :
         output.parsed.teacherCode = <<"P">> \o tokensOf(input.filename)[i + 1]

\* ------------------------------------------------------------------------
\* Claims on the matcher after long runs
\* ------------------------------------------------------------------------

\* the scorer's clamp range
inClampRange(confidence) == -30 <= confidence /\ confidence <= 200

\* C26: every confidence stored in the pattern cache, and every confidence
\* an item received from a hit in the pattern cache, lies in the clamp range
\* of the scorer, [-30, 200]
C26_AsClaimed ==
  /\ \A k \in DOMAIN matchCache : inClampRange(matchCache[k].confidence)
  /\ (last.op = "match" /\ last.path = "pattern") => inClampRange(item.confidence)

\* the library name holds the keyword of the other track only
oppositeOnly(mathType, libraryName) ==
  LET libNameUpper == toUpperCase(libraryName)
      hasPure == includes(libNameUpper, <<"P","U","R","E">>)
      hasApplied == includes(libNameUpper, <<"A","P","P","L","I","E","D">>)
  IN \/ mathType = <<"P","U","R","E">> /\ hasApplied /\ ~hasPure
     \/ mathType = <<"A","P","P","L","I","E","D">> /\ hasPure /\ ~hasApplied

\* C27 as claimed: an item whose parsed track type is PURE (APPLIED) is
\* never left auto-applied by tryMatchLibrary to a library whose name holds
\* only the keyword APPLIED (PURE)
C27_AsClaimed ==
  (last.op = "match" /\ ~item.needsManualSelection)
    => ~oppositeOnly(fileOf(last.filename).parsed.mathType, item.libraryName)

\* tryMatchLibrary has just left the item applied to a library of the
\* other track only
appliedToOpposite ==
  /\ last.op = "match"
  /\ ~item.needsManualSelection
  /\ oppositeOnly(fileOf(last.filename).parsed.mathType, item.libraryName)

\* C27: when the scorer path of tryMatchLibrary applies an item of one
\* track to a library that names the other track only, the teacher code of
\* the item stands in the name of that library; without it the penalty
\* keeps every such library below all thresholds
C27_ScorerPath ==
  (appliedToOpposite /\ last.path = "auto")
    => /\ Truthy(fileOf(last.filename).parsed.teacherCode)
       /\ includes(item.libraryName, fileOf(last.filename).parsed.teacherCode)

\* a PURE item applied by the scorer path to a library of APPLIED only,
\* below the confidence threshold
C27_Witness ==
  /\ appliedToOpposite
  /\ last.path = "auto"
  /\ fileOf(last.filename).parsed.mathType = <<"P","U","R","E">>
  /\ item.confidence < highConfidence

\* the ids of the candidate libraries of the call completed last
candidateIds == { last.libraries[i].id : i \in 1..Len(last.libraries) }

\* C28 as claimed, in runs without a manual selection: when
\* tryMatchLibrary leaves an item applied, the library it assigned is one
\* of the candidate libraries returned for that call
C28_AsClaimed ==
  (last.op = "match" /\ ~item.needsManualSelection /\ learned = EmptyMap)
    => item.library \in candidateIds

\* the parsed track type of a queue item: PURE, APPLIED or undefined
trackOf(filename) == fileOf(filename).parsed.mathType

\* the keys under which recording a match for an item writes the pattern
\* cache
keysWrittenFor(keys) ==
  {keys.patternKey}
    \cup (IF Truthy(keys.enhancedKey) THEN {keys.enhancedKey} ELSE {})
    \cup { k \in Range(keys.alternateKeys) : Truthy(k) }

\* the entries of the pattern cache that a step wrote or changed
changedKeys ==
  { k \in DOMAIN matchCache' :
      k \notin DOMAIN matchCache \/ matchCache'[k] # matchCache[k] }

\* the step records a match for the item of last'.filename
Records ==
  \/ last'.op = "learn"
  \/ Resumed /\ ~item'.needsManualSelection

\* C29: the pattern cache never crosses track types.  A step changes the
\* pattern cache only when it records a match for an item, and only under
\* the keys of that item; and no key written for an item of one track type
\* is the key under which an item of another track type (PURE, APPLIED or
\* none) looks the pattern cache up
C29_NoCrossing ==
  [][ /\ changedKeys # {} => (Records /\ changedKeys \subseteq
                                keysWrittenFor(fileOf(last'.filename).keys))
      /\ Records =>
           /\ mapHas(matchCache', fileOf(last'.filename).keys.patternKey)
           /\ \A k \in keysWrittenFor(fileOf(last'.filename).keys) :
                \A g \in TrackFilenames :
                  fileOf(g).keys.patternKey = k => trackOf(g) = trackOf(last'.filename)
    ]_vars

\* an item of the track PURE has received, from the pattern cache, a match
\* that was recorded for another item of that track under an alternate key
C29_Witness ==
  /\ last.op = "match"
  /\ last.path = "pattern"
  /\ last.filename = <<"M","2","-","P","U","R","E","-","M","A","T","H","-","P","0","0","7","8",".","m","p","4">>
  /\ trackOf(<<"M","2","-","P","U","R","E","-","P","0","0","7","8",".","m","p","4">>) = <<"P","U","R","E">>
  /\ mapHas(applied, fileOf(<<"M","2","-","P","U","R","E","-","P","0","0","7","8",".","m","p","4">>).keys.patternKey)
  /\ fileOf(last.filename).keys.patternKey
       \in Range(fileOf(<<"M","2","-","P","U","R","E","-","P","0","0","7","8",".","m","p","4">>).keys.alternateKeys)
  /\ item.confidence
       = applied[fileOf(<<"M","2","-","P","U","R","E","-","P","0","0","7","8",".","m","p","4">>).keys.patternKey].confidence
           - alternateKeyPenalty

\* ------------------------------------------------------------------------
\* The two question detectors (specification SpecPure)
\* ------------------------------------------------------------------------

\* the final-minutes update has looked at a routed video
detected == output.fn = "isQuestionVideo"

\* C30 as claimed: the final-minutes update skips a video as a question
\* video exactly when determineCollection routed its file to a collection
\* whose name ends with -QV
C30_AsClaimed ==
  detected => (output.question <=> endsWith(output.collection.name, <<"-","Q","V">>))

=============================================================================
